---- MODULE Spec2Model ----
(***************************************************************************)
(* Order settlement and commission engine of finan_manage                  *)
(* (src/finance_logic.py, src/config.py, src/database_setup.py).           *)
(*                                                                         *)
(* Money is kept in cents (the DECIMAL(..,2) columns of the store); an     *)
(* exact Decimal product amount * percentage is kept in thousandths of a   *)
(* cent ("milli") until the store rounds it into a column.                 *)
(***************************************************************************)
EXTENDS Integers, Sequences, FiniteSets, TLC

\* ------------------------------------------------------------------ bounds
NumUsers == 3
NumOrderNos == 2
MaxOrders == 2
MaxQuantity == 2
MaxRefunds == 2
MaxWithdrawals == 1
MaxPending == 1
NumSessions == 2
ConcMaxOrders == 2
ConcMaxWithdrawals == 2
CapHistory == 6
CapNewOrders == 1
NumRewardIds == 2
NumWithdrawalIds == 2
MaxSubsidyRecords == 1
NumDirectorUsers == 12

Users == 1..NumUsers
OrderNos == 1..NumOrderNos
Quantities == 1..MaxQuantity
PointsChoices == {0, 1, 251}
WithdrawAmounts == {10025, 30000}
RewardIds == 1..NumRewardIds
WithdrawalIds == 1..NumWithdrawalIds
NULL == 0

\* --------------------------------------------------------------- config.py
PLATFORM_MERCHANT_ID == 0
MEMBER_PRODUCT_PRICE == 198000
POINTS_DISCOUNT_RATE == 1
MAX_PURCHASE_PER_DAY == 2
MAX_LEVEL == 6
MAX_TEAM_LAYER == 6
TAX_RATE_PERMILLE == 60
REVENUE_PERMILLE == 800
HALF_PERMILLE == 500
COMPANY_POINTS_PERMILLE == 200
MANUAL_THRESHOLD == 500000
\* MAX_POINTS_VALUE, in cents per point
MAX_POINTS_VALUE == 2

AllocationKeys ==
    <<"public_welfare", "platform", "subsidy_pool", "honor_director",
      "community", "city_center", "region_company", "development">>

\* ALLOCATIONS, as thousandths of the amount
ALLOCATIONS ==
    [k \in {AllocationKeys[i] : i \in 1..Len(AllocationKeys)} |->
        CASE k = "public_welfare" -> 10
          [] k = "platform" -> 10
          [] k = "subsidy_pool" -> 120
          [] k = "honor_director" -> 20
          [] k = "community" -> 10
          [] k = "city_center" -> 10
          [] k = "region_company" -> 5
          [] k = "development" -> 15]

AccountTypes ==
    {"subsidy_pool", "public_welfare", "platform", "honor_director", "community",
     "city_center", "region_company", "development", "company_points",
     "company_balance", "platform_revenue_pool"}

\* The product catalogue: the member card and the merchant's normal product of
\* create_test_data, and three products created through create_product: a
\* normal product sold by the platform itself and, under later ids, a second
\* member product, which create_product prices at MEMBER_PRODUCT_PRICE, and a
\* normal product of a second merchant, user 2.
Products ==
    [p \in {1, 2, 3, 5, 6} |->
        CASE p = 1 -> [price |-> MEMBER_PRODUCT_PRICE, is_member_product |-> TRUE,
                       merchant_id |-> PLATFORM_MERCHANT_ID, status |-> 1]
          [] p = 2 -> [price |-> 50000, is_member_product |-> FALSE,
                       merchant_id |-> 1, status |-> 1]
          [] p = 3 -> [price |-> 990, is_member_product |-> FALSE,
                       merchant_id |-> PLATFORM_MERCHANT_ID, status |-> 1]
          [] p = 5 -> [price |-> MEMBER_PRODUCT_PRICE, is_member_product |-> TRUE,
                       merchant_id |-> PLATFORM_MERCHANT_ID, status |-> 1]
          [] p = 6 -> [price |-> 50000, is_member_product |-> FALSE,
                       merchant_id |-> 2, status |-> 1]]
\* the ids requests that run one after the other ask for: the first three
\* products and an id that no product has
ProductIds == 1..4

\* ---------------------------------------------------------------- helpers
Min(a, b) == IF a < b THEN a ELSE b
Max(a, b) == IF a > b THEN a ELSE b

\* A DECIMAL(..,2) column holding `cents`, assigned the exact value
\* cents + milli/1000: MySQL rounds half away from zero.
StoreRounded(cents, milli) ==
    LET whole == cents + (milli \div 1000)
        rest == milli % 1000
    IN  whole + (IF (whole >= 0 /\ rest >= 500) \/ (whole < 0 /\ rest > 500) THEN 1 ELSE 0)

RoundMilli(n) == StoreRounded(0, n)

\* cents < milli/1000, a DECIMAL(..,2) value compared with an exact Decimal
Below(cents, milli) == cents < -((-milli) \div 1000)

\* Decimal amount * Decimal percentage, exact, in thousandths of a cent
Pct(amount, permille) == amount * permille

\* int(Decimal): truncation of an amount in milli-cents to whole units
IntOfMilli(milli) == milli \div 100000
\* the amount rounded up to whole units instead of truncated
IntOfCents_RoundUp(cents) == (cents + 99) \div 100

IntOfCents(cents) == cents \div 100

\* UPDATE finance_accounts SET balance = balance + :amount (amount in milli)
AddAccount(d, type, milli) ==
    [d EXCEPT !.accounts[type] = StoreRounded(@, milli)]

\* UPDATE users SET <field> = <field> + :amount (amount in milli)
AddUserMoney(d, u, f, milli) ==
    [d EXCEPT !.users[u][f] = StoreRounded(@, milli)]

AddUserPoints(d, u, f, n) == [d EXCEPT !.users[u][f] = @ + n]

\* ------------------------------------------------------------------- store
NewUser ==
    [member_level |-> 0, points |-> 0, promotion_balance |-> 0,
     merchant_points |-> 0, merchant_balance |-> 0, status |-> 1]

\* The store once the users exist and each user but the first has been given
\* the previous one as referrer (create_user, set_referrer): a referral chain
\* NumUsers -> ... -> 2 -> 1. User 1 is also the merchant of product 2.
InitDb ==
    [accounts |-> [a \in AccountTypes |-> 0],
     users |-> [u \in Users |-> NewUser],
     user_referrals |-> [u \in Users |-> u - 1],
     orders |-> << >>,
     order_items |-> << >>,
     pending_rewards |-> << >>,
     team_rewards |-> << >>,
     points_log |-> << >>,
     account_flow |-> << >>,
     withdrawals |-> << >>,
     coupons |-> << >>,
     weekly_subsidy_records |-> << >>]

\* db: the store as the service's session sees it (its uncommitted statements
\*     included); committed: the durable store any other session reads;
\* last: the latest call and its outcome; refunds: per order_no, how many
\*     refund_order calls have succeeded
\* npending: how many failed settle_order calls have left statements pending
\*     in the session since its last commit or rollback
\* sess: for each concurrent request, how far its call has got and with which
\*     arguments (used by ConcSpec only)
VARIABLES db, committed, last, refunds, npending, sess
vars == <<db, committed, last, refunds, npending, sess>>

\* ------------------------------------------------------ FinanceService core
get_account_balance(d, account_type) ==
    IF account_type \in AccountTypes THEN d.accounts[account_type] ELSE 0

get_user_balance(d, user_id, balance_type) ==
    IF user_id \in Users THEN d.users[user_id][balance_type] ELSE 0

\* required_amount is an exact Decimal, in milli
_check_pool_balance(d, account_type, required_milli) ==
    ~Below(get_account_balance(d, account_type), required_milli)

_check_user_balance(d, user_id, required_milli, balance_type) ==
    ~Below(get_user_balance(d, user_id, balance_type), required_milli)

IsLimitedOrder(user_id, o) ==
    o.user_id = user_id /\ o.is_member_order /\ o.recent /\ o.status # "refunded"

check_purchase_limit(d, user_id) ==
    Cardinality({i \in 1..Len(d.orders) : IsLimitedOrder(user_id, d.orders[i])})
        < MAX_PURCHASE_PER_DAY

_get_balance_after(d, account_type, related_user) ==
    IF related_user # NULL /\ account_type \in {"promotion_balance", "merchant_balance"}
    THEN get_user_balance(d, related_user, account_type)
    ELSE get_account_balance(d, account_type)

\* change_amount is exact (milli); the change_amount column rounds it
_record_flow(d, account_type, related_user, change_milli, flow_type) ==
    [d EXCEPT !.account_flow = Append(@,
        [account_type |-> account_type, related_user |-> related_user,
         change_amount |-> RoundMilli(change_milli),
         balance_after |-> _get_balance_after(d, account_type, related_user),
         flow_type |-> flow_type])]

\* -------------------------------------------------------------- settlement
Fail(d, err) == [ok |-> FALSE, db |-> d, err |-> err, order_id |-> NULL]
Done(d, order_id) == [ok |-> TRUE, db |-> d, err |-> "", order_id |-> order_id]

\* _apply_points_discount without its 50% test
_apply_points_discount_NoLimit(d, user_id, user, points_to_use, amount) ==
    IF user.points < points_to_use THEN Fail(d, "InsufficientPoints")
    ELSE LET d1 == AddUserPoints(d, user_id, "points", -points_to_use)
             d2 == AddAccount(d1, "company_points", points_to_use * 100000)
         IN  Done(d2, NULL)

_apply_points_discount(d, user_id, user, points_to_use, amount) ==
    IF user.points < points_to_use THEN Fail(d, "InsufficientPoints")
    ELSE IF points_to_use * 100000 > Pct(amount, HALF_PERMILLE)
    THEN Fail(d, "DiscountLimitExceeded")
    ELSE LET d1 == AddUserPoints(d, user_id, "points", -points_to_use)
             d2 == AddAccount(d1, "company_points", points_to_use * 100000)
         IN  Done(d2, NULL)

\* a store whose orders.order_no carries no unique index
HasOrderNo_NoUniqueIndex(d, order_no) == FALSE

HasOrderNo(d, order_no) == \E i \in 1..Len(d.orders) : d.orders[i].order_no = order_no

\* the unique index on orders.order_no rejects a second row with the same number
_create_order(d, order_no, user_id, merchant_id, product_id, total_amount, original_amount, points_discount, is_member) ==
    IF HasOrderNo(d, order_no) THEN Fail(d, "IntegrityError")
    ELSE LET order_id == Len(d.orders) + 1
             d1 == [d EXCEPT !.orders = Append(@,
                       [id |-> order_id, order_no |-> order_no, user_id |-> user_id,
                        merchant_id |-> merchant_id, total_amount |-> total_amount,
                        original_amount |-> original_amount,
                        points_discount |-> points_discount,
                        is_member_order |-> is_member, status |-> "completed",
                        refund_status |-> "", recent |-> TRUE])]
             d2 == [d1 EXCEPT !.order_items = Append(@,
                       [order_id |-> order_id, product_id |-> product_id, quantity |-> 1,
                        unit_price |-> original_amount, total_price |-> original_amount])]
         IN  Done(d2, order_id)

\* the loop without the flow entry for public_welfare
RECURSIVE AllocationLoop_NoFlow(_, _, _, _)
AllocationLoop_NoFlow(d, i, amount, related_user) ==
    IF i > Len(AllocationKeys) THEN d
    ELSE AllocationLoop_NoFlow(AddAccount(d, AllocationKeys[i],
                                          Pct(amount, ALLOCATIONS[AllocationKeys[i]])),
                               i + 1, amount, related_user)

\* the loop over ALLOCATIONS.items(), from entry i on
RECURSIVE AllocationLoop(_, _, _, _)
AllocationLoop(d, i, amount, related_user) ==
    IF i > Len(AllocationKeys) THEN d
    ELSE LET purpose == AllocationKeys[i]
             alloc_amount == Pct(amount, ALLOCATIONS[purpose])
             d1 == AddAccount(d, purpose, alloc_amount)
             d2 == IF purpose = "public_welfare"
                   THEN _record_flow(d1, purpose, related_user, alloc_amount, "income")
                   ELSE d1
         IN  AllocationLoop(d2, i + 1, amount, related_user)

_allocate_funds_to_pools(d, order_id, total_amount) ==
    LET platform_revenue == Pct(total_amount, REVENUE_PERMILLE)
        d1 == AddAccount(d, "platform_revenue_pool", platform_revenue)
    IN  AllocationLoop(d1, 1, total_amount, NULL)

Referrer(d, user_id) ==
    IF user_id \in DOMAIN d.user_referrals THEN d.user_referrals[user_id] ELSE NULL

\* the for-loop of the team walk: n iterations left, stops at a missing edge
RECURSIVE TeamWalk(_, _, _, _)
TeamWalk(d, current_id, target_referrer, n) ==
    IF n = 0 THEN target_referrer
    ELSE LET ref == Referrer(d, current_id)
         IN  IF ref = NULL THEN target_referrer ELSE TeamWalk(d, ref, ref, n - 1)

\* a reward row of the full price of the member product
PendingReward_FullPrice(user_id, reward_type, order_id, layer) ==
    [user_id |-> user_id, reward_type |-> reward_type,
     amount |-> MEMBER_PRODUCT_PRICE,
     order_id |-> order_id, layer |-> layer, status |-> "pending"]

PendingReward(user_id, reward_type, order_id, layer) ==
    [user_id |-> user_id, reward_type |-> reward_type,
     amount |-> RoundMilli(Pct(MEMBER_PRODUCT_PRICE, HALF_PERMILLE)),
     order_id |-> order_id, layer |-> layer, status |-> "pending"]

\* the referral step without its test of the buyer's previous level
ReferralRewardStep_AnyLevel(d, order_id, buyer_id, old_level) ==
    IF Referrer(d, buyer_id) # NULL
    THEN [d EXCEPT !.pending_rewards =
             Append(@, PendingReward(Referrer(d, buyer_id), "referral", order_id, NULL))]
    ELSE d

ReferralRewardStep(d, order_id, buyer_id, old_level) ==
    IF old_level = 0 /\ Referrer(d, buyer_id) # NULL
    THEN [d EXCEPT !.pending_rewards =
             Append(@, PendingReward(Referrer(d, buyer_id), "referral", order_id, NULL))]
    ELSE d

TeamRewardStep(d, order_id, buyer_id, new_level) ==
    LET target_layer == new_level
        target_referrer == TeamWalk(d, buyer_id, NULL, target_layer)
    IN  IF target_referrer = NULL THEN Done(d, order_id)
        ELSE IF target_referrer \notin Users THEN Fail(d, "AttributeError")
        ELSE IF d.users[target_referrer].member_level >= target_layer
        THEN Done([d EXCEPT !.pending_rewards =
                      Append(@, PendingReward(target_referrer, "team", order_id,
                                              target_layer))], order_id)
        ELSE Done(d, order_id)

\* the reward walk without the skip of the transition 0 -> 1
_create_pending_rewards_NoSkip(d, order_id, buyer_id, old_level, new_level) ==
    TeamRewardStep(ReferralRewardStep(d, order_id, buyer_id, old_level), order_id, buyer_id,
                   new_level)

_create_pending_rewards(d, order_id, buyer_id, old_level, new_level) ==
    LET d1 == ReferralRewardStep(d, order_id, buyer_id, old_level)
    IN  IF old_level = 0 /\ new_level = 1 THEN Done(d1, order_id)
        ELSE TeamRewardStep(d1, order_id, buyer_id, new_level)

PointsLog(d, user_id, change, field, type, order_id) ==
    [d EXCEPT !.points_log = Append(@,
        [user_id |-> user_id, change_amount |-> change,
         balance_after |-> d.users[user_id][field], type |-> type,
         related_order |-> order_id])]

\* the member order without the cap of the level
_process_member_order_Uncapped(d, order_id, user_id, user, unit_price, quantity) ==
    LET total_amount == unit_price * quantity
        d1 == _allocate_funds_to_pools(d, order_id, total_amount)
        old_level == user.member_level
        new_level == old_level + quantity
        d2 == [d1 EXCEPT !.users[user_id].member_level = new_level]
        points_earned == IntOfCents(unit_price * quantity)
        d3 == AddUserPoints(d2, user_id, "points", points_earned)
        d4 == PointsLog(d3, user_id, points_earned, "points", "member", order_id)
        r == _create_pending_rewards(d4, order_id, user_id, old_level, new_level)
        company_points == IntOfMilli(Pct(total_amount, COMPANY_POINTS_PERMILLE))
    IN  IF ~r.ok THEN r
        ELSE Done(AddAccount(r.db, "company_points", company_points * 100000), order_id)

_process_member_order(d, order_id, user_id, user, unit_price, quantity) ==
    LET total_amount == unit_price * quantity
        d1 == _allocate_funds_to_pools(d, order_id, total_amount)
        old_level == user.member_level
        new_level == Min(old_level + quantity, MAX_LEVEL)
        d2 == [d1 EXCEPT !.users[user_id].member_level = new_level]
        points_earned == IntOfCents(unit_price * quantity)
        d3 == AddUserPoints(d2, user_id, "points", points_earned)
        d4 == PointsLog(d3, user_id, points_earned, "points", "member", order_id)
        r == _create_pending_rewards(d4, order_id, user_id, old_level, new_level)
        company_points == IntOfMilli(Pct(total_amount, COMPANY_POINTS_PERMILLE))
    IN  IF ~r.ok THEN r
        ELSE Done(AddAccount(r.db, "company_points", company_points * 100000), order_id)

\* the normal order that credits the revenue share to the pool as well
_process_normal_order_PoolToo(d, order_id, user_id, merchant_id, final_amount, member_level) ==
    LET share == Pct(final_amount, REVENUE_PERMILLE)
        d1 == IF merchant_id # PLATFORM_MERCHANT_ID
              THEN _record_flow(AddUserMoney(AddAccount(d, "platform_revenue_pool", share),
                                             merchant_id, "merchant_balance", share),
                                "merchant_balance", merchant_id, share, "income")
              ELSE AddAccount(d, "platform_revenue_pool", share)
        d2 == AllocationLoop(d1, 1, final_amount, user_id)
        points_earned == IntOfCents(final_amount)
        d3 == IF member_level >= 1
              THEN PointsLog(AddUserPoints(d2, user_id, "points", points_earned),
                             user_id, points_earned, "points", "member", order_id)
              ELSE d2
        merchant_points == IntOfMilli(Pct(final_amount, COMPANY_POINTS_PERMILLE))
        d4 == IF merchant_id # PLATFORM_MERCHANT_ID /\ merchant_points > 0
              THEN PointsLog(AddUserPoints(d3, merchant_id, "merchant_points", merchant_points),
                             merchant_id, merchant_points, "merchant_points", "merchant",
                             order_id)
              ELSE d3
    IN  Done(d4, order_id)

_process_normal_order(d, order_id, user_id, merchant_id, final_amount, member_level) ==
    LET share == Pct(final_amount, REVENUE_PERMILLE)
        d1 == IF merchant_id # PLATFORM_MERCHANT_ID
              THEN _record_flow(AddUserMoney(d, merchant_id, "merchant_balance", share),
                                "merchant_balance", merchant_id, share, "income")
              ELSE AddAccount(d, "platform_revenue_pool", share)
        d2 == AllocationLoop(d1, 1, final_amount, user_id)
        points_earned == IntOfCents(final_amount)
        d3 == IF member_level >= 1
              THEN PointsLog(AddUserPoints(d2, user_id, "points", points_earned),
                             user_id, points_earned, "points", "member", order_id)
              ELSE d2
        merchant_points == IntOfMilli(Pct(final_amount, COMPANY_POINTS_PERMILLE))
        d4 == IF merchant_id # PLATFORM_MERCHANT_ID /\ merchant_points > 0
              THEN PointsLog(AddUserPoints(d3, merchant_id, "merchant_points", merchant_points),
                             merchant_id, merchant_points, "merchant_points", "merchant",
                             order_id)
              ELSE d3
    IN  Done(d4, order_id)

\* settle_order from the product lock up to the buyer lock: product, merchant
\* and purchase-limit checks ("" when they pass)
settle_checks(d, user_id, product_id) ==
    IF product_id \notin DOMAIN Products \/ Products[product_id].status # 1
    THEN "ProductNotFound"
    ELSE IF Products[product_id].merchant_id # PLATFORM_MERCHANT_ID
            /\ Products[product_id].merchant_id \notin Users
    THEN "MerchantNotFound"
    ELSE IF Products[product_id].is_member_product /\ ~check_purchase_limit(d, user_id)
    THEN "RateLimitExceeded"
    ELSE ""

\* settle_order after the buyer lock, lines 114-131, with the row user that
\* the locking SELECT returned
settle_read(d, user, order_no, user_id, product_id, quantity, points_to_use) ==
    LET product == Products[product_id]
        merchant_id == product.merchant_id
        unit_price == product.price
        original_amount == unit_price * quantity
        discounted == ~product.is_member_product /\ points_to_use > 0
        r1 == IF discounted
              THEN _apply_points_discount(d, user_id, user, points_to_use, original_amount)
              ELSE Done(d, NULL)
        points_discount == IF discounted THEN points_to_use * POINTS_DISCOUNT_RATE * 100 ELSE 0
        final_amount == original_amount - points_discount
    IN
    IF ~r1.ok THEN r1
    ELSE
    LET r2 == _create_order(r1.db, order_no, user_id, merchant_id, product_id, final_amount,
                            original_amount, points_discount, product.is_member_product)
    IN
    IF ~r2.ok THEN r2
    ELSE IF product.is_member_product
    THEN _process_member_order(r2.db, r2.order_id, user_id, user, unit_price, quantity)
    ELSE _process_normal_order(r2.db, r2.order_id, user_id, merchant_id, final_amount,
                               user.member_level)

\* settle_order from the buyer lock up to, not including, its commit
settle_locked(d, order_no, user_id, product_id, quantity, points_to_use) ==
    IF user_id \notin Users THEN Fail(d, "UserNotFound")
    ELSE settle_read(d, d.users[user_id], order_no, user_id, product_id, quantity,
                     points_to_use)

\* settle_order up to, not including, its commit
settle_order(d, order_no, user_id, product_id, quantity, points_to_use) ==
    IF settle_checks(d, user_id, product_id) # ""
    THEN Fail(d, settle_checks(d, user_id, product_id))
    ELSE settle_locked(d, order_no, user_id, product_id, quantity, points_to_use)

\* ------------------------------------------------------------------ refund
\* the debit without the balance condition of its WHERE clause
DebitPromotion_Unguarded(d, user_id, milli) ==
    IF user_id \in Users
    THEN AddUserMoney(d, user_id, "promotion_balance", -milli)
    ELSE d

\* UPDATE users SET promotion_balance = promotion_balance - :amount
\*  WHERE id = :user_id AND promotion_balance >= :amount   (amount in milli)
DebitPromotionIfCovered(d, user_id, milli) ==
    IF user_id \in Users /\ ~Below(d.users[user_id].promotion_balance, milli)
    THEN AddUserMoney(d, user_id, "promotion_balance", -milli)
    ELSE d

\* the loop over the team_rewards rows of the order, from row i on
RECURSIVE TeamRewardReversal(_, _, _)
TeamRewardReversal(d, order_id, i) ==
    IF i > Len(d.team_rewards) THEN d
    ELSE LET reward == d.team_rewards[i]
             d1 == IF reward.order_id = order_id
                   THEN DebitPromotionIfCovered(d, reward.user_id, reward.reward_amount * 1000)
                   ELSE d
         IN  TeamRewardReversal(d1, order_id, i + 1)

\* GREATEST(points - :points, 0)
PointsAfterRefund(points, user_points) == Max(points - user_points, 0)

\* the level decrement without GREATEST
LevelAfterRefund_NoFloor(member_level) == member_level - 1

\* GREATEST(member_level - 1, 0)
LevelAfterRefund(member_level) == Max(member_level - 1, 0)

\* the reversal that also rejects the rewards the order has queued
MemberReversal_RejectsRewards(d, order) ==
    LET user_id == order.user_id
        referrer == Referrer(d, user_id)
        d1 == IF referrer # NULL
              THEN DebitPromotionIfCovered(d, referrer,
                                           Pct(order.original_amount, HALF_PERMILLE))
              ELSE d
        d2 == TeamRewardReversal(d1, order.id, 1)
        user_points == IntOfCents(order.original_amount)
        d3 == [d2 EXCEPT !.users[user_id].points = PointsAfterRefund(@, user_points)]
        d4 == [d3 EXCEPT !.pending_rewards =
                 [i \in 1..Len(@) |-> IF @[i].order_id = order.id
                                      THEN [@[i] EXCEPT !.status = "rejected"]
                                      ELSE @[i]]]
    IN  [d4 EXCEPT !.users[user_id].member_level = LevelAfterRefund(@)]

MemberReversal(d, order) ==
    LET user_id == order.user_id
        referrer == Referrer(d, user_id)
        d1 == IF referrer # NULL
              THEN DebitPromotionIfCovered(d, referrer,
                                           Pct(order.original_amount, HALF_PERMILLE))
              ELSE d
        d2 == TeamRewardReversal(d1, order.id, 1)
        user_points == IntOfCents(order.original_amount)
        d3 == [d2 EXCEPT !.users[user_id].points = PointsAfterRefund(@, user_points)]
    IN  [d3 EXCEPT !.users[user_id].member_level = LevelAfterRefund(@)]

RevenueReversal(d, order) ==
    LET merchant_amount == Pct(order.total_amount, REVENUE_PERMILLE)
        merchant_id == order.merchant_id
    IN  IF order.is_member_order
        THEN IF _check_pool_balance(d, "platform_revenue_pool", merchant_amount)
             THEN Done(AddAccount(d, "platform_revenue_pool", -merchant_amount), order.id)
             ELSE Fail(d, "InsufficientBalance")
        ELSE IF merchant_id = PLATFORM_MERCHANT_ID
        THEN Done(AddAccount(d, "platform_revenue_pool", -merchant_amount), order.id)
        ELSE IF _check_user_balance(d, merchant_id, merchant_amount, "merchant_balance")
        THEN Done(AddUserMoney(d, merchant_id, "merchant_balance", -merchant_amount),
                  order.id)
        ELSE Fail(d, "InsufficientBalance")

\* the status test that guards a refund
AlreadyRefunded(order) == order.status = "refunded"

\* UPDATE orders SET refund_status = 'refunded'
MarkRefunded(d, order_id) == [d EXCEPT !.orders[order_id].refund_status = "refunded"]

\* refund_order up to, not including, its commit or rollback
refund_order(d, order_no) ==
    LET ids == {i \in 1..Len(d.orders) : d.orders[i].order_no = order_no}
    IN  IF ids = {} THEN Fail(d, "NotFound")
        ELSE
        LET order == d.orders[CHOOSE i \in ids : TRUE]
        IN  IF AlreadyRefunded(order) THEN Fail(d, "AlreadyRefunded")
            ELSE
            LET d1 == IF order.is_member_order THEN MemberReversal(d, order) ELSE d
                r == RevenueReversal(d1, order)
            IN  IF ~r.ok THEN r ELSE Done(MarkRefunded(r.db, order.id), order.id)

\* -------------------------------------------------------------- withdrawal
BalanceField(withdrawal_type) ==
    IF withdrawal_type = "user" THEN "promotion_balance" ELSE "merchant_balance"

\* apply_withdrawal after its balance check: the insert, the debit, the tax
\* and the flows; amount in cents
withdrawal_apply(d, user_id, amount, withdrawal_type) ==
    LET balance_field == BalanceField(withdrawal_type)
        tax_amount == Pct(amount, TAX_RATE_PERMILLE)
        actual_amount == amount * 1000 - tax_amount
        status == IF amount > MANUAL_THRESHOLD THEN "pending_manual" ELSE "pending_auto"
        withdrawal_id == Len(d.withdrawals) + 1
        d1 == [d EXCEPT !.withdrawals = Append(@,
                  [id |-> withdrawal_id, user_id |-> user_id, amount |-> amount,
                   tax_amount |-> RoundMilli(tax_amount),
                   actual_amount |-> RoundMilli(actual_amount), status |-> status])]
        d2 == AddUserMoney(d1, user_id, balance_field, -(amount * 1000))
        d3 == _record_flow(d2, balance_field, user_id, -(amount * 1000), "expense")
        d4 == AddAccount(d3, "company_balance", tax_amount)
        d5 == _record_flow(d4, "company_balance", user_id, tax_amount, "income")
    IN  Done(d5, withdrawal_id)

\* apply_withdrawal without its balance check
apply_withdrawal_Unchecked(d, user_id, amount, withdrawal_type) ==
    withdrawal_apply(d, user_id, amount, withdrawal_type)

\* apply_withdrawal up to, not including, its commit or rollback
apply_withdrawal(d, user_id, amount, withdrawal_type) ==
    IF ~_check_user_balance(d, user_id, amount * 1000, BalanceField(withdrawal_type))
    THEN Fail(d, "InsufficientBalance")
    ELSE withdrawal_apply(d, user_id, amount, withdrawal_type)

\* ------------------------------------------------------------ reward audit
\* SELECT ... FROM pending_rewards WHERE id IN (...) AND status = 'pending'
PendingIds_AnyStatus(d, reward_ids) ==
    {i \in reward_ids : i \in 1..Len(d.pending_rewards)}

PendingIds(d, reward_ids) ==
    {i \in reward_ids : i \in 1..Len(d.pending_rewards)
                        /\ d.pending_rewards[i].status = "pending"}

Coupon(user_id, coupon_type, cents) ==
    [user_id |-> user_id, coupon_type |-> coupon_type, amount |-> cents, status |-> "unused"]

\* the loop over the selected rewards, in id order
RECURSIVE ApproveLoop(_, _)
ApproveLoop(d, ids) ==
    IF ids = {} THEN d
    ELSE LET id == CHOOSE i \in ids : \A j \in ids : i <= j
             reward == d.pending_rewards[id]
             d1 == [d EXCEPT !.coupons = Append(@, Coupon(reward.user_id, "user", reward.amount))]
             d2 == [d1 EXCEPT !.pending_rewards[id].status = "approved"]
             d3 == _record_flow(d2, "coupon", reward.user_id, 0, "coupon")
         IN  ApproveLoop(d3, ids \ {id})

\* UPDATE pending_rewards SET status = 'rejected' WHERE id IN (...)
RejectAll(d, reward_ids) ==
    [d EXCEPT !.pending_rewards =
        [i \in 1..Len(d.pending_rewards) |->
            IF i \in reward_ids
            THEN [d.pending_rewards[i] EXCEPT !.status = "rejected"]
            ELSE d.pending_rewards[i]]]

\* the audit without its test that some selected reward is pending
audit_and_distribute_rewards_NoPendingCheck(d, reward_ids, approve) ==
    IF reward_ids = {} THEN Fail(d, "EmptyRewardIds")
    ELSE IF approve THEN Done(ApproveLoop(d, PendingIds(d, reward_ids)), NULL)
    ELSE Done(RejectAll(d, reward_ids), NULL)

\* audit_and_distribute_rewards up to, not including, its commit or rollback
audit_and_distribute_rewards(d, reward_ids, approve) ==
    IF reward_ids = {} THEN Fail(d, "EmptyRewardIds")
    ELSE IF PendingIds(d, reward_ids) = {} THEN Fail(d, "NoPendingRewards")
    ELSE IF approve THEN Done(ApproveLoop(d, PendingIds(d, reward_ids)), NULL)
    ELSE Done(RejectAll(d, reward_ids), NULL)

\* -------------------------------------------------------- withdrawal audit
IsPendingWithdrawal(d, withdrawal_id) ==
    /\ withdrawal_id \in 1..Len(d.withdrawals)
    /\ d.withdrawals[withdrawal_id].status \in {"pending_auto", "pending_manual"}

\* audit_withdrawal after its SELECT ... FOR UPDATE and its status test: the
\* status update and the branch. The reject branch reads
\* withdraw.withdrawal_type, which no column of withdrawals gives.
audit_apply(d, withdrawal_id, approve) ==
    LET withdraw == d.withdrawals[withdrawal_id]
        new_status == IF approve THEN "approved" ELSE "rejected"
        d1 == [d EXCEPT !.withdrawals[withdrawal_id].status = new_status]
    IN  IF approve
        THEN Done(_record_flow(d1, "withdrawal", withdraw.user_id,
                               withdraw.actual_amount * 1000, "income"), withdrawal_id)
        ELSE Fail(d1, "AttributeError")

\* audit_withdrawal up to, not including, its commit or rollback
audit_withdrawal(d, withdrawal_id, approve) ==
    IF ~IsPendingWithdrawal(d, withdrawal_id) THEN Fail(d, "NotFoundOrProcessed")
    ELSE audit_apply(d, withdrawal_id, approve)

\* ------------------------------------------------------------ weekly subsidy
RECURSIVE SumPositive(_, _, _)
\* SELECT SUM(<field>) FROM users WHERE <field> > 0, over the users up to u
SumPositive(d, field, u) ==
    IF u = 0 THEN 0
    ELSE (IF d.users[u][field] > 0 THEN d.users[u][field] ELSE 0) + SumPositive(d, field, u - 1)

\* user points + merchant points + company points, in hundredths of a point
TotalPoints(d) ==
    (SumPositive(d, "points", NumUsers) + SumPositive(d, "merchant_points", NumUsers)) * 100
    + d.accounts["company_points"]

\* points * points_value, in yuan (whole part) and in milli, where
\* points_value = min(pool_balance / total_points, MAX_POINTS_VALUE)
SubsidyAmount(d, points) ==
    LET pool == d.accounts["subsidy_pool"]
        total == TotalPoints(d)
    IN  IF pool * 100 > MAX_POINTS_VALUE * total
        THEN [yuan |-> (points * MAX_POINTS_VALUE) \div 100,
              milli |-> points * MAX_POINTS_VALUE * 1000]
        ELSE [yuan |-> (points * pool) \div total,
              milli |-> ((points * pool) \div total) * 100000
                        + ((((points * pool) % total) * 1000) \div total) * 100]

SubsidyRecord(user_id, amount, points_before, points_deducted, coupon_id) ==
    [user_id |-> user_id, subsidy_amount |-> RoundMilli(amount.milli),
     points_before |-> points_before, points_deducted |-> points_deducted,
     coupon_id |-> coupon_id]

\* the loop over the users with points > 0, from user u on; each amount is
\* computed from the pool and the totals read before the loop (store d0)
RECURSIVE SubsidyUsers(_, _, _)
SubsidyUsers(d0, d, u) ==
    IF u > NumUsers THEN d
    ELSE IF d0.users[u].points <= 0 THEN SubsidyUsers(d0, d, u + 1)
    ELSE LET amount == SubsidyAmount(d0, d0.users[u].points)
             coupon_id == Len(d.coupons) + 1
             d1 == [d EXCEPT !.coupons = Append(@, Coupon(u, "user", RoundMilli(amount.milli)))]
             d2 == AddUserPoints(d1, u, "points", -amount.yuan)
             d3 == [d2 EXCEPT !.weekly_subsidy_records = Append(@,
                       SubsidyRecord(u, amount, d0.users[u].points, amount.yuan, coupon_id))]
         IN  SubsidyUsers(d0, d3, u + 1)

\* the loop over the users with merchant_points > 0: the coupon insert and the
\* points deduction are disabled; each record carries the coupon_id the user
\* loop left behind
RECURSIVE SubsidyMerchants(_, _, _, _)
SubsidyMerchants(d0, d, u, coupon_id) ==
    IF u > NumUsers THEN d
    ELSE IF d0.users[u].merchant_points <= 0 THEN SubsidyMerchants(d0, d, u + 1, coupon_id)
    ELSE LET amount == SubsidyAmount(d0, d0.users[u].merchant_points)
             d1 == [d EXCEPT !.weekly_subsidy_records = Append(@,
                       SubsidyRecord(u, amount, d0.users[u].merchant_points, amount.yuan,
                                     coupon_id))]
         IN  SubsidyMerchants(d0, d1, u + 1, coupon_id)

\* distribute_weekly_subsidy up to, not including, its commit
subsidy_run(d) ==
    IF d.accounts["subsidy_pool"] <= 0 THEN Fail(d, "PoolEmpty")
    ELSE IF TotalPoints(d) <= 0 THEN Fail(d, "NoPoints")
    ELSE LET d1 == SubsidyUsers(d, d, 1)
         IN  IF SumPositive(d, "merchant_points", NumUsers) > 0 /\ d1.coupons = d.coupons
             THEN Fail(d1, "NameError")
             ELSE Done(SubsidyMerchants(d, d1, 1, Len(d1.coupons)), NULL)

\* a run that also debits the pool by one cent
distribute_weekly_subsidy_DebitsPool(d) ==
    IF subsidy_run(d).ok
    THEN Done(AddAccount(subsidy_run(d).db, "subsidy_pool", -1000), NULL)
    ELSE subsidy_run(d)

distribute_weekly_subsidy(d) == subsidy_run(d)

\* --------------------------------------------------------------- referrals
\* set_referrer without the test for a self-referral
set_referrer_NoSelfCheck(d, user_id, referrer_id) ==
    IF referrer_id \notin Users THEN Fail(d, "ReferrerNotFound")
    ELSE IF d.user_referrals[user_id] # NULL THEN Fail(d, "AlreadyReferred")
    ELSE Done([d EXCEPT !.user_referrals[user_id] = referrer_id], NULL)

\* user_referrals without the UNIQUE index on user_id
ReferralRowExists_NoUniqueIndex(d, user_id) == FALSE

\* user_id BIGINT UNSIGNED UNIQUE NOT NULL: the row an INSERT collides with
ReferralRowExists(d, user_id) == d.user_referrals[user_id] # NULL

\* set_referrer up to, not including, its commit or rollback
set_referrer(d, user_id, referrer_id) ==
    IF referrer_id \notin Users THEN Fail(d, "ReferrerNotFound")
    ELSE IF user_id = referrer_id THEN Fail(d, "SelfReferral")
    ELSE IF d.user_referrals[user_id] # NULL THEN Fail(d, "AlreadyReferred")
    ELSE Done([d EXCEPT !.user_referrals[user_id] = referrer_id], NULL)

\* ---------------------------------------------------------------- actions
NoArgs ==
    [op |-> "init", ok |-> TRUE, err |-> "", order_no |-> 0, user_id |-> 0,
     product_id |-> 0, quantity |-> 0, points_to_use |-> 0, amount |-> 0, kind |-> "",
     id |-> 0, ids |-> {}, approve |-> FALSE, referrer_id |-> 0]

\* a failed call: what the caller learns is the error, whatever the request
Failed(op, err) == [NoArgs EXCEPT !.op = op, !.ok = FALSE, !.err = err]

Sessions == 1..NumSessions

\* a request slot with no call in progress
Idle ==
    [pc |-> "idle", order_no |-> 0, user_id |-> 0, product_id |-> 0, quantity |-> 0,
     points_to_use |-> 0, amount |-> 0, kind |-> "", id |-> 0, approve |-> FALSE,
     referrer_id |-> 0, member_level |-> 0, points |-> 0, ids |-> {}, found |-> {}]

Init ==
    /\ db = InitDb
    /\ committed = InitDb
    /\ last = NoArgs
    /\ refunds = [o \in OrderNos |-> 0]
    /\ npending = 0
    /\ sess = [s \in Sessions |-> Idle]

\* session.commit() makes the session's view durable; session.rollback()
\* discards everything the session has not committed
Commit(r) == db' = r.db /\ committed' = r.db /\ npending' = 0
Rollback == db' = committed /\ committed' = committed /\ npending' = 0
\* an exception that nothing handles: no commit, no rollback
Abandon(r) ==
    /\ db' = r.db
    /\ committed' = committed
    /\ npending' = IF r.db = db THEN npending ELSE npending + 1
    /\ npending' <= MaxPending

\* settle_order has no exception handler: on an error the statements already
\* executed stay pending in the session
SettleOrder ==
    \E order_no \in OrderNos, user_id \in Users, product_id \in ProductIds,
       quantity \in Quantities, points_to_use \in PointsChoices :
        /\ Len(db.orders) < MaxOrders
        /\ LET r == settle_order(db, order_no, user_id, product_id, quantity, points_to_use)
           IN  /\ IF r.ok THEN Commit(r) ELSE Abandon(r)
               /\ last' = IF r.ok
                          THEN [NoArgs EXCEPT !.op = "settle_order", !.order_no = order_no,
                                              !.user_id = user_id, !.product_id = product_id,
                                              !.quantity = quantity,
                                              !.points_to_use = points_to_use]
                          ELSE Failed("settle_order", r.err)
        /\ UNCHANGED <<refunds, sess>>

RefundOrder ==
    \E order_no \in OrderNos :
        /\ refunds[order_no] < MaxRefunds
        /\ LET r == refund_order(db, order_no)
           IN  /\ IF r.ok THEN Commit(r) ELSE Rollback
               /\ refunds' = IF r.ok THEN [refunds EXCEPT ![order_no] = @ + 1] ELSE refunds
               /\ last' = IF r.ok
                          THEN [NoArgs EXCEPT !.op = "refund_order", !.order_no = order_no]
                          ELSE Failed("refund_order", r.err)
        /\ UNCHANGED sess

ApplyWithdrawal ==
    \E user_id \in Users, amount \in WithdrawAmounts, kind \in {"user", "merchant"} :
        /\ Len(db.withdrawals) < MaxWithdrawals
        /\ LET r == apply_withdrawal(db, user_id, amount, kind)
           IN  /\ IF r.ok THEN Commit(r) ELSE Rollback
               /\ last' = IF r.ok
                          THEN [NoArgs EXCEPT !.op = "apply_withdrawal", !.user_id = user_id,
                                              !.amount = amount, !.kind = kind]
                          ELSE [Failed("apply_withdrawal", r.err) EXCEPT
                                    !.user_id = user_id, !.amount = amount, !.kind = kind]
        /\ UNCHANGED <<refunds, sess>>

AuditRewards ==
    \E reward_ids \in SUBSET RewardIds, approve \in BOOLEAN :
        /\ LET r == audit_and_distribute_rewards(db, reward_ids, approve)
           IN  /\ IF r.ok THEN Commit(r) ELSE Rollback
               /\ last' = [NoArgs EXCEPT !.op = "audit_and_distribute_rewards", !.ok = r.ok,
                                         !.err = r.err, !.ids = reward_ids,
                                         !.approve = approve]
        /\ UNCHANGED <<refunds, sess>>

AuditWithdrawal ==
    \E withdrawal_id \in WithdrawalIds, approve \in BOOLEAN :
        /\ LET r == audit_withdrawal(db, withdrawal_id, approve)
           IN  /\ IF r.ok THEN Commit(r) ELSE Rollback
               /\ last' = [NoArgs EXCEPT !.op = "audit_withdrawal", !.ok = r.ok,
                                         !.err = r.err, !.id = withdrawal_id,
                                         !.approve = approve]
        /\ UNCHANGED <<refunds, sess>>

\* distribute_weekly_subsidy has no exception handler
DistributeSubsidy ==
    /\ Len(db.weekly_subsidy_records) < MaxSubsidyRecords
    /\ LET r == distribute_weekly_subsidy(db)
       IN  /\ IF r.ok THEN Commit(r) ELSE Abandon(r)
           /\ last' = [NoArgs EXCEPT !.op = "distribute_weekly_subsidy", !.ok = r.ok,
                                     !.err = r.err]
    /\ UNCHANGED <<refunds, sess>>

Next == SettleOrder \/ RefundOrder \/ ApplyWithdrawal

Spec == Init /\ [][Next]_vars

\* settlements and the audit of the rewards they queue
RewardNext == SettleOrder \/ AuditRewards

RewardSpec == Init /\ [][RewardNext]_vars

\* settlements, the audit of their rewards and refunds
RefundRewardNext == SettleOrder \/ AuditRewards \/ RefundOrder

RefundRewardSpec == Init /\ [][RefundRewardNext]_vars

\* settlements, withdrawals and their audit
WithdrawalNext == SettleOrder \/ ApplyWithdrawal \/ AuditWithdrawal

WithdrawalSpec == Init /\ [][WithdrawalNext]_vars

\* settlements and subsidy runs
SubsidyNext == SettleOrder \/ DistributeSubsidy

SubsidySpec == Init /\ [][SubsidyNext]_vars

\* ------------------------------------------------- concurrent requests
\* Each request runs on a session of its own (get_db_session), which is closed,
\* and so rolled back, when the request ends without a commit. A request takes
\* its row locks one statement at a time; the store makes a statement wait
\* while another session holds a lock on a row it reads FOR UPDATE or writes.
\* A plain SELECT reads the committed store without waiting. Once a call
\* holds the last lock it reads under, its remaining statements up to the
\* commit are taken as one step, which waits for the rows it writes.
ConcUsers == {1, 2}
ConcProducts == {1, 2}
ConcPoints == {0, 1}

HoldsProduct(s, product_id) ==
    sess[s].pc \in {"settle_product", "settle_user", "settle_pools"}
    /\ sess[s].product_id = product_id

HoldsUser(s, user_id) ==
    sess[s].pc \in {"settle_user", "settle_pools"} /\ sess[s].user_id = user_id

ProductFree(s, product_id) == \A t \in Sessions \ {s} : ~HoldsProduct(t, product_id)
\* a buyer row read without FOR UPDATE
UserFree_NoLock(s, user_id) == TRUE

UserFree(s, user_id) == \A t \in Sessions \ {s} : ~HoldsUser(t, user_id)

InFlight(pcs) == Cardinality({s \in Sessions : sess[s].pc \in pcs})

ConcInit ==
    /\ db = InitDb
    /\ committed = InitDb
    /\ last = NoArgs
    /\ refunds = [o \in OrderNos |-> 0]
    /\ npending = 0
    /\ sess = [s \in Sessions |-> Idle]

ConcFrame == UNCHANGED <<db, refunds, npending>>

\* settle_order, lines 83-101: SELECT ... FROM products ... FOR UPDATE, then the
\* merchant and purchase-limit checks
SettleLockProduct(s) ==
    \E order_no \in OrderNos, user_id \in ConcUsers, product_id \in ConcProducts,
       quantity \in Quantities, points_to_use \in ConcPoints :
        /\ sess[s].pc = "idle"
        /\ Len(committed.orders) + InFlight({"settle_product", "settle_user"}) < ConcMaxOrders
        /\ ProductFree(s, product_id)
        /\ LET err == settle_checks(committed, user_id, product_id)
           IN  IF err # ""
               THEN /\ sess' = sess
                    /\ last' = Failed("settle_order", err)
               ELSE /\ sess' = [sess EXCEPT ![s] =
                                  [Idle EXCEPT !.pc = "settle_product", !.order_no = order_no,
                                               !.user_id = user_id, !.product_id = product_id,
                                               !.quantity = quantity,
                                               !.points_to_use = points_to_use]]
                    /\ last' = last
        /\ UNCHANGED committed
        /\ ConcFrame

\* settle_order, lines 106-112: SELECT ... FROM users ... FOR UPDATE
SettleLockUser(s) ==
    /\ sess[s].pc = "settle_product"
    /\ UserFree(s, sess[s].user_id)
    /\ sess' = [sess EXCEPT ![s].pc = "settle_user"]
    /\ UNCHANGED <<committed, last>>
    /\ ConcFrame

\* settle_order, lines 114-135: the discount, the order, the allocation and
\* the commit; an error ends the request, whose session is rolled back
SettleFinish(s) ==
    /\ sess[s].pc = "settle_user"
    /\ LET a == sess[s]
           merchant_id == Products[a.product_id].merchant_id
           r == settle_locked(committed, a.order_no, a.user_id, a.product_id, a.quantity,
                              a.points_to_use)
       IN  /\ (merchant_id # PLATFORM_MERCHANT_ID /\ ~Products[a.product_id].is_member_product)
                 => UserFree(s, merchant_id)
           /\ committed' = IF r.ok THEN r.db ELSE committed
           /\ last' = IF r.ok
                      THEN [NoArgs EXCEPT !.op = "settle_order", !.order_no = a.order_no,
                                          !.user_id = a.user_id, !.product_id = a.product_id,
                                          !.quantity = a.quantity,
                                          !.points_to_use = a.points_to_use]
                      ELSE Failed("settle_order", r.err)
    /\ sess' = [sess EXCEPT ![s] = Idle]
    /\ ConcFrame

\* apply_withdrawal, line 709: _check_user_balance, a plain SELECT
WithdrawCheck(s) ==
    \E user_id \in ConcUsers, amount \in WithdrawAmounts, kind \in {"user", "merchant"} :
        /\ sess[s].pc = "idle"
        /\ Len(committed.withdrawals) + InFlight({"withdraw_checked"}) < ConcMaxWithdrawals
        /\ IF _check_user_balance(committed, user_id, amount * 1000, BalanceField(kind))
           THEN /\ sess' = [sess EXCEPT ![s] =
                              [Idle EXCEPT !.pc = "withdraw_checked", !.user_id = user_id,
                                           !.amount = amount, !.kind = kind]]
                /\ last' = last
           ELSE /\ sess' = sess
                /\ last' = Failed("apply_withdrawal", "InsufficientBalance")
        /\ UNCHANGED committed
        /\ ConcFrame

\* apply_withdrawal, lines 711-757: the insert, the debit of the balance as it
\* now is, the tax, the flows and the commit
WithdrawFinish(s) ==
    /\ sess[s].pc = "withdraw_checked"
    /\ UserFree(s, sess[s].user_id)
    /\ LET a == sess[s]
           r == withdrawal_apply(committed, a.user_id, a.amount, a.kind)
       IN  /\ committed' = r.db
           /\ last' = [NoArgs EXCEPT !.op = "apply_withdrawal", !.user_id = a.user_id,
                                     !.amount = a.amount, !.kind = a.kind]
    /\ sess' = [sess EXCEPT ![s] = Idle]
    /\ ConcFrame

ConcNext ==
    \E s \in Sessions :
        \/ SettleLockProduct(s)
        \/ SettleLockUser(s)
        \/ SettleFinish(s)
        \/ WithdrawCheck(s)
        \/ WithdrawFinish(s)

ConcSpec == ConcInit /\ [][ConcNext]_vars

\* ------------------------------------------------ concurrent audits
\* audit_withdrawal reads the withdrawal FOR UPDATE: a second audit of the same
\* withdrawal waits at that statement until the first has committed or rolled
\* back, and then reads the row as the first left it.
HoldsWithdrawal(s, withdrawal_id) == sess[s].pc = "audit_locked" /\ sess[s].id = withdrawal_id

\* a store without row locks
WithdrawalFree_NoLock(s, withdrawal_id) == TRUE

WithdrawalFree(s, withdrawal_id) == \A t \in Sessions \ {s} : ~HoldsWithdrawal(t, withdrawal_id)

AuditRecord(r, withdrawal_id, approve) ==
    [NoArgs EXCEPT !.op = "audit_withdrawal", !.ok = r.ok, !.err = r.err,
                   !.id = withdrawal_id, !.approve = approve]

\* audit_withdrawal, lines 766-773: SELECT ... FOR UPDATE and the status test
AuditLock(s) ==
    \E withdrawal_id \in WithdrawalIds, approve \in BOOLEAN :
        /\ sess[s].pc = "idle"
        /\ WithdrawalFree(s, withdrawal_id)
        /\ IF IsPendingWithdrawal(committed, withdrawal_id)
           THEN /\ sess' = [sess EXCEPT ![s] =
                              [Idle EXCEPT !.pc = "audit_locked", !.id = withdrawal_id,
                                           !.approve = approve]]
                /\ last' = last
           ELSE /\ sess' = sess
                /\ last' = AuditRecord(Fail(committed, "NotFoundOrProcessed"), withdrawal_id,
                                       approve)
        /\ UNCHANGED committed
        /\ ConcFrame

\* audit_withdrawal, lines 775-817: the status update, the branch and the
\* commit, or the rollback
AuditFinish(s) ==
    /\ sess[s].pc = "audit_locked"
    /\ LET r == audit_apply(committed, sess[s].id, sess[s].approve)
       IN  /\ committed' = IF r.ok THEN r.db ELSE committed
           /\ last' = AuditRecord(r, sess[s].id, sess[s].approve)
    /\ sess' = [sess EXCEPT ![s] = Idle]
    /\ ConcFrame

AuditConcNext ==
    \E s \in Sessions :
        \/ SettleLockProduct(s)
        \/ SettleLockUser(s)
        \/ SettleFinish(s)
        \/ WithdrawCheck(s)
        \/ WithdrawFinish(s)
        \/ AuditLock(s)
        \/ AuditFinish(s)

AuditConcSpec == ConcInit /\ [][AuditConcNext]_vars

\* ------------------------------- concurrent member-product settlements
\* A buyer who bought the member product once in the last 24 hours, and
\* requests that settle either member product for that buyer or another.
LimitMaxOrders == 3
LimitBuyers == {2, 3}
LimitProducts == {1, 5}

LimitInit ==
    /\ db = settle_order(InitDb, NumOrderNos + 1, 2, 1, 1, 0).db
    /\ committed = db
    /\ last = NoArgs
    /\ refunds = [o \in OrderNos |-> 0]
    /\ npending = 0
    /\ sess = [s \in Sessions |-> Idle]

\* settle_order, lines 83-101, for a member product
LimitLockProduct(s) ==
    \E order_no \in OrderNos, user_id \in LimitBuyers, product_id \in LimitProducts :
        /\ sess[s].pc = "idle"
        /\ Len(committed.orders) + InFlight({"settle_product", "settle_user"}) < LimitMaxOrders
        /\ ProductFree(s, product_id)
        /\ LET err == settle_checks(committed, user_id, product_id)
           IN  IF err # ""
               THEN /\ sess' = sess
                    /\ last' = Failed("settle_order", err)
               ELSE /\ sess' = [sess EXCEPT ![s] =
                                  [Idle EXCEPT !.pc = "settle_product", !.order_no = order_no,
                                               !.user_id = user_id, !.product_id = product_id,
                                               !.quantity = 1]]
                    /\ last' = last
        /\ UNCHANGED committed
        /\ ConcFrame

LimitNext ==
    \E s \in Sessions :
        \/ LimitLockProduct(s)
        \/ SettleLockUser(s)
        \/ SettleFinish(s)

LimitSpec == LimitInit /\ [][LimitNext]_vars

\* ------------------------------------------ settlements that cross
\* Two merchants, each buying the other's product. The credit of the
\* merchant's merchant_balance (line 313) is an UPDATE of the merchant's users
\* row and waits while another session holds that row.
LockBuyers == {1, 2}
LockProducts == {2, 6}

\* the merchant whose users row the settlement of session s has still to update
MerchantRow(s) ==
    IF Products[sess[s].product_id].merchant_id # PLATFORM_MERCHANT_ID
       /\ ~Products[sess[s].product_id].is_member_product
    THEN Products[sess[s].product_id].merchant_id
    ELSE NULL

\* session s holds its buyer's row and waits for a row that session t holds
WaitsFor(s, t) ==
    /\ s # t
    /\ sess[s].pc = "settle_user"
    /\ MerchantRow(s) # NULL
    /\ HoldsUser(t, MerchantRow(s))

\* settle_order, lines 83-101, for a merchant's product
LockLockProduct(s) ==
    \E order_no \in OrderNos, user_id \in LockBuyers, product_id \in LockProducts,
       quantity \in Quantities :
        /\ sess[s].pc = "idle"
        /\ Len(committed.orders) + InFlight({"settle_product", "settle_user"}) < ConcMaxOrders
        /\ ProductFree(s, product_id)
        /\ LET err == settle_checks(committed, user_id, product_id)
           IN  IF err # ""
               THEN /\ sess' = sess
                    /\ last' = Failed("settle_order", err)
               ELSE /\ sess' = [sess EXCEPT ![s] =
                                  [Idle EXCEPT !.pc = "settle_product", !.order_no = order_no,
                                               !.user_id = user_id, !.product_id = product_id,
                                               !.quantity = quantity]]
                    /\ last' = last
        /\ UNCHANGED committed
        /\ ConcFrame

\* the store finds two sessions waiting for each other and ends one of them
\* with a deadlock error; settle_order does not handle it, and the request's
\* session is rolled back when it is closed
DeadlockVictim(s) ==
    /\ \E t \in Sessions : WaitsFor(s, t) /\ WaitsFor(t, s)
    /\ sess' = [sess EXCEPT ![s] = Idle]
    /\ last' = Failed("settle_order", "Deadlock")
    /\ UNCHANGED committed
    /\ ConcFrame

LockNext ==
    \E s \in Sessions :
        \/ LockLockProduct(s)
        \/ SettleLockUser(s)
        \/ SettleFinish(s)
        \/ DeadlockVictim(s)

LockSpec == ConcInit /\ [][LockNext]_vars

\* ------------------------------------------------ the pool rows
\* Every settlement credits the rows of finance_accounts (lines 226-238 for a
\* member order, 325-338 for a normal one) and holds them until it commits.
\* Here the statements after the buyer lock are two steps: up to the first
\* UPDATE of finance_accounts, and from there to the commit.
HoldsPools(s) == sess[s].pc = "settle_pools"

PoolsFree(s) == \A t \in Sessions \ {s} : ~HoldsPools(t)

\* what the settlement of session s would do on the store as committed
Pending(s) ==
    settle_locked(committed, sess[s].order_no, sess[s].user_id, sess[s].product_id,
                  sess[s].quantity, sess[s].points_to_use)

\* settle_order, lines 114-125 and on to the first pool credit; an error of
\* the discount or of the order insert ends the request
SettleTakePools(s) ==
    /\ sess[s].pc = "settle_user"
    /\ IF Pending(s).ok
       THEN /\ MerchantRow(s) # NULL => UserFree(s, MerchantRow(s))
            /\ PoolsFree(s)
            /\ sess' = [sess EXCEPT ![s].pc = "settle_pools"]
            /\ last' = last
       ELSE /\ sess' = [sess EXCEPT ![s] = Idle]
            /\ last' = Failed("settle_order", Pending(s).err)
    /\ UNCHANGED committed
    /\ ConcFrame

\* the remaining credits and the commit
SettleCommit(s) ==
    /\ sess[s].pc = "settle_pools"
    /\ committed' = Pending(s).db
    /\ last' = [NoArgs EXCEPT !.op = "settle_order", !.order_no = sess[s].order_no,
                              !.user_id = sess[s].user_id,
                              !.product_id = sess[s].product_id,
                              !.quantity = sess[s].quantity,
                              !.points_to_use = sess[s].points_to_use]
    /\ sess' = [sess EXCEPT ![s] = Idle]
    /\ ConcFrame

PoolNext ==
    \E s \in Sessions :
        \/ SettleLockProduct(s)
        \/ SettleLockUser(s)
        \/ SettleTakePools(s)
        \/ SettleCommit(s)

PoolSpec == ConcInit /\ [][PoolNext]_vars

\* ------------------------------------------------ concurrent referrals
\* The users exist and none has a referrer yet. set_referrer reads with plain
\* SELECTs and then inserts; the INSERT waits while another session holds an
\* uncommitted row with the same user_id, and fails on the UNIQUE index once
\* such a row is committed.
ReferrerChoices == Users \cup {NumUsers + 1}

ReferrerInit ==
    /\ db = [InitDb EXCEPT !.user_referrals = [u \in Users |-> NULL]]
    /\ committed = db
    /\ last = NoArgs
    /\ refunds = [o \in OrderNos |-> 0]
    /\ npending = 0
    /\ sess = [s \in Sessions |-> Idle]

HoldsReferral(s, user_id) == sess[s].pc = "referrer_inserted" /\ sess[s].user_id = user_id

ReferralFree(s, user_id) == \A t \in Sessions \ {s} : ~HoldsReferral(t, user_id)

\* set_referrer, lines 911-927: the three tests, on plain reads
SetReferrerCheck(s) ==
    \E user_id \in Users, referrer_id \in ReferrerChoices :
        /\ sess[s].pc = "idle"
        /\ LET r == set_referrer(committed, user_id, referrer_id)
           IN  IF r.ok
               THEN /\ sess' = [sess EXCEPT ![s] =
                                  [Idle EXCEPT !.pc = "referrer_checked", !.user_id = user_id,
                                               !.referrer_id = referrer_id]]
                    /\ last' = last
               ELSE /\ sess' = sess
                    /\ last' = [Failed("set_referrer", r.err) EXCEPT
                                   !.user_id = user_id, !.referrer_id = referrer_id]
        /\ UNCHANGED committed
        /\ ConcFrame

\* set_referrer, lines 929-932: the INSERT; a duplicate key ends the call in
\* the handler, which rolls back and returns False
SetReferrerInsert(s) ==
    /\ sess[s].pc = "referrer_checked"
    /\ ReferralFree(s, sess[s].user_id)
    /\ IF ReferralRowExists(committed, sess[s].user_id)
       THEN /\ sess' = [sess EXCEPT ![s] = Idle]
            /\ last' = [Failed("set_referrer", "IntegrityError") EXCEPT
                           !.user_id = sess[s].user_id, !.referrer_id = sess[s].referrer_id]
       ELSE /\ sess' = [sess EXCEPT ![s].pc = "referrer_inserted"]
            /\ last' = last
    /\ UNCHANGED committed
    /\ ConcFrame

\* set_referrer, lines 934-936: the commit
SetReferrerCommit(s) ==
    /\ sess[s].pc = "referrer_inserted"
    /\ committed' = [committed EXCEPT !.user_referrals[sess[s].user_id] = sess[s].referrer_id]
    /\ last' = [NoArgs EXCEPT !.op = "set_referrer", !.user_id = sess[s].user_id,
                              !.referrer_id = sess[s].referrer_id]
    /\ sess' = [sess EXCEPT ![s] = Idle]
    /\ ConcFrame

ReferrerNext ==
    \E s \in Sessions : SetReferrerCheck(s) \/ SetReferrerInsert(s) \/ SetReferrerCommit(s)

ReferrerSpec == ReferrerInit /\ [][ReferrerNext]_vars

\* ------------------------------------------------- referral-chain walks
\* the number of edges the for-loop of _create_pending_rewards follows: n
\* iterations left, it stops at a missing edge
RECURSIVE TeamWalkHops(_, _, _)
TeamWalkHops(d, current_id, n) ==
    IF n = 0 THEN 0
    ELSE LET ref == Referrer(d, current_id)
         IN  IF ref = NULL THEN 0 ELSE 1 + TeamWalkHops(d, ref, n - 1)

\* SELECT user_id FROM user_referrals WHERE referrer_id IN frontier
Referred(d, frontier) == {u \in DOMAIN d.user_referrals : d.user_referrals[u] \in frontier}

\* the recursive step that would also extend the rows of the last layer
RECURSIVE TeamTree_OneLayerMore(_, _, _, _)
TeamTree_OneLayerMore(d, frontier, layer, max_layer) ==
    IF frontier = {} THEN {}
    ELSE {<<u, layer>> : u \in frontier}
         \cup (IF layer <= max_layer
               THEN TeamTree_OneLayerMore(d, Referred(d, frontier), layer + 1, max_layer)
               ELSE {})

\* WITH RECURSIVE team_tree: the rows <<user_id, layer>> from the rows of one
\* layer on; a row is extended only WHERE tt.layer < :max_layer
RECURSIVE TeamTree(_, _, _, _)
TeamTree(d, frontier, layer, max_layer) ==
    IF frontier = {} THEN {}
    ELSE {<<u, layer>> : u \in frontier}
         \cup (IF layer < max_layer
               THEN TeamTree(d, Referred(d, frontier), layer + 1, max_layer)
               ELSE {})

get_user_team(d, user_id, max_layer) == TeamTree(d, Referred(d, {user_id}), 1, max_layer)

\* the downline rows of a recursion that stops three layers later
DirectorTeam_NineLayers(d, user_id) == TeamTree(d, Referred(d, {user_id}), 1, 9)

\* check_director_promotion: the downline rows, WHERE t.level < 6
DirectorTeam(d, user_id) == TeamTree(d, Referred(d, {user_id}), 1, 6)

\* get_transaction_chain_report: the users of the chain, from current_id on,
\* while current_id and level < MAX_TEAM_LAYER
RECURSIVE ChainWalk(_, _, _)
ChainWalk(d, current_id, level) ==
    IF current_id = NULL \/ ~(level < MAX_TEAM_LAYER) THEN << >>
    ELSE IF current_id \notin Users THEN << >>
    ELSE <<current_id>> \o (IF Referrer(d, current_id) = NULL THEN << >>
                            ELSE ChainWalk(d, Referrer(d, current_id), level + 1))

Layers(rows) == {r[2] : r \in rows}

\* The walks are run on every single-parent referral relation over the users,
\* those with cycles and self-edges included.
WalkInit ==
    /\ \E edges \in [Users -> Users \cup {NULL}] :
          db = [InitDb EXCEPT !.user_referrals = edges]
    /\ committed = db
    /\ last = NoArgs
    /\ refunds = [o \in OrderNos |-> 0]
    /\ npending = 0
    /\ sess = [s \in Sessions |-> Idle]

WalkFrame == UNCHANGED <<db, committed, refunds, npending, sess>>

\* the walk of _create_pending_rewards for a buyer whose new level is n
WalkReward ==
    \E buyer_id \in Users, n \in 1..MAX_LEVEL :
        /\ last' = [NoArgs EXCEPT !.op = "team_walk", !.user_id = buyer_id, !.quantity = n,
                                  !.amount = TeamWalkHops(db, buyer_id, n),
                                  !.id = TeamWalk(db, buyer_id, NULL, n)]
        /\ WalkFrame

WalkTeam ==
    \E user_id \in Users, max_layer \in 1..MAX_TEAM_LAYER :
        /\ last' = [NoArgs EXCEPT !.op = "get_user_team", !.user_id = user_id,
                                  !.quantity = max_layer,
                                  !.ids = get_user_team(db, user_id, max_layer)]
        /\ WalkFrame

WalkDirector ==
    \E user_id \in Users :
        /\ last' = [NoArgs EXCEPT !.op = "director_team", !.user_id = user_id,
                                  !.ids = DirectorTeam(db, user_id)]
        /\ WalkFrame

WalkChain ==
    \E user_id \in Users :
        /\ last' = [NoArgs EXCEPT !.op = "transaction_chain", !.user_id = user_id,
                                  !.amount = Len(ChainWalk(db, user_id, 0)),
                                  !.id = ChainWalk(db, user_id, 0)[Len(ChainWalk(db, user_id, 0))]]
        /\ WalkFrame

WalkNext == WalkReward \/ WalkTeam \/ WalkDirector \/ WalkChain

WalkSpec == WalkInit /\ [][WalkNext]_vars

\* -------------------------------------------------- director promotion
IsSixStar(d, u) == d.users[u].member_level = 6

\* COUNT(DISTINCT u.id) ... WHERE ur.referrer_id = :user_id AND u.member_level = 6
DirectCount(d, user_id) == Cardinality({u \in Referred(d, {user_id}) : IsSixStar(d, u)})

\* COUNT(DISTINCT t.user_id) FROM team t JOIN users u ... WHERE u.member_level = 6
TotalCount(d, user_id) ==
    Cardinality({u \in DOMAIN d.users :
                    IsSixStar(d, u) /\ \E r \in DirectorTeam(d, user_id) : r[1] = u})

\* the users of the loop whose UPDATE ... SET status = 9 is executed
DirectorCandidates(d) ==
    {u \in DOMAIN d.users :
        IsSixStar(d, u) /\ DirectCount(d, u) >= 3 /\ TotalCount(d, u) >= 10}

\* check_director_promotion up to its commit: the store and promoted_count
check_director_promotion(d) ==
    [db |-> [d EXCEPT !.users = [u \in DOMAIN d.users |->
                         IF u \in DirectorCandidates(d)
                         THEN [d.users[u] EXCEPT !.status = 9]
                         ELSE d.users[u]]],
     promoted_count |-> Cardinality({u \in DirectorCandidates(d) : d.users[u].status # 9})]

\* A population of NumDirectorUsers users under user 1: the users 2..direct+1
\* are referred by user 1; the others are either all referred by user 2 or
\* hang in one chain below user 2. Any of them is a six-star member or a
\* five-star one, and user 1 may be an honor director already.
DirectorUsers == 1..NumDirectorUsers

DirectorEdges(direct, chain) ==
    [u \in DirectorUsers |->
        IF u = 1 THEN NULL
        ELSE IF u <= direct + 1 THEN 1
        ELSE IF chain /\ u > direct + 2 THEN u - 1
        ELSE 2]

DirectorInit ==
    /\ \E six \in SUBSET DirectorUsers, direct \in 2..4, chain \in BOOLEAN, status \in {1, 9} :
          db = [InitDb EXCEPT
                  !.users = [u \in DirectorUsers |->
                               [NewUser EXCEPT !.member_level = IF u \in six THEN 6 ELSE 5,
                                               !.status = IF u = 1 THEN status ELSE 1]],
                  !.user_referrals = DirectorEdges(direct, chain)]
    /\ committed = db
    /\ last = NoArgs
    /\ refunds = [o \in OrderNos |-> 0]
    /\ npending = 0
    /\ sess = [s \in Sessions |-> Idle]

CheckDirectorPromotion ==
    /\ LET r == check_director_promotion(db)
       IN  /\ db' = r.db
           /\ committed' = r.db
           /\ last' = [NoArgs EXCEPT !.op = "check_director_promotion",
                                     !.amount = r.promoted_count]
    /\ UNCHANGED <<refunds, npending, sess>>

DirectorNext == CheckDirectorPromotion

DirectorSpec == DirectorInit /\ [][DirectorNext]_vars

\* ------------------------------------- settlements of one buyer that race
\* Buyer 2 bought four units of the member product more than a day ago and
\* now sends settlements concurrently, for member products and for a normal
\* product with or without points. The row the locking SELECT of line 106
\* returns is what the rest of the call computes with.
RaceBuyers == {2}
RaceProducts == {1, 3, 5}

RaceInit ==
    /\ LET d == settle_order(InitDb, NumOrderNos + 1, 2, 1, 4, 0).db
       IN  db = [d EXCEPT !.orders[1].recent = FALSE]
    /\ committed = db
    /\ last = NoArgs
    /\ refunds = [o \in OrderNos |-> 0]
    /\ npending = 0
    /\ sess = [s \in Sessions |-> Idle]

\* settle_order, lines 83-101
RaceLockProduct(s) ==
    \E order_no \in OrderNos, user_id \in RaceBuyers, product_id \in RaceProducts,
       quantity \in Quantities, points_to_use \in ConcPoints :
        /\ sess[s].pc = "idle"
        /\ Len(committed.orders) + InFlight({"settle_product", "settle_user"}) <= ConcMaxOrders
        /\ ProductFree(s, product_id)
        /\ LET err == settle_checks(committed, user_id, product_id)
           IN  IF err # ""
               THEN /\ sess' = sess
                    /\ last' = Failed("settle_order", err)
               ELSE /\ sess' = [sess EXCEPT ![s] =
                                  [Idle EXCEPT !.pc = "settle_product", !.order_no = order_no,
                                               !.user_id = user_id, !.product_id = product_id,
                                               !.quantity = quantity,
                                               !.points_to_use = points_to_use]]
                    /\ last' = last
        /\ UNCHANGED committed
        /\ ConcFrame

\* settle_order, lines 106-112: SELECT member_level, points ... FOR UPDATE
RaceLockUser(s) ==
    /\ sess[s].pc = "settle_product"
    /\ UserFree(s, sess[s].user_id)
    /\ sess' = [sess EXCEPT ![s].pc = "settle_user",
                            ![s].member_level = committed.users[sess[s].user_id].member_level,
                            ![s].points = committed.users[sess[s].user_id].points]
    /\ UNCHANGED <<committed, last>>
    /\ ConcFrame

\* settle_order, lines 114-135, computed with the row read under the lock
RaceFinish(s) ==
    /\ sess[s].pc = "settle_user"
    /\ LET a == sess[s]
           user == [committed.users[a.user_id] EXCEPT !.member_level = a.member_level,
                                                      !.points = a.points]
           r == settle_read(committed, user, a.order_no, a.user_id, a.product_id,
                            a.quantity, a.points_to_use)
       IN  /\ committed' = IF r.ok THEN r.db ELSE committed
           /\ last' = IF r.ok
                      THEN [NoArgs EXCEPT !.op = "settle_order", !.order_no = a.order_no,
                                          !.user_id = a.user_id, !.product_id = a.product_id,
                                          !.quantity = a.quantity,
                                          !.points_to_use = a.points_to_use]
                      ELSE Failed("settle_order", r.err)
    /\ sess' = [sess EXCEPT ![s] = Idle]
    /\ ConcFrame

RaceNext == \E s \in Sessions : RaceLockProduct(s) \/ RaceLockUser(s) \/ RaceFinish(s)

RaceSpec == RaceInit /\ [][RaceNext]_vars

\* ------------------------------------------------ every service call
\* User 2 has bought one unit of the member product, which queued a referral
\* reward for user 1; from there every operation of the service is called.
FrameInit ==
    /\ db = settle_order(InitDb, 1, 2, 1, 1, 0).db
    /\ committed = db
    /\ last = NoArgs
    /\ refunds = [o \in OrderNos |-> 0]
    /\ npending = 0
    /\ sess = [s \in Sessions |-> Idle]

\* settle_order of user 3, for the member product or for the product of
\* merchant 1
FrameSettle ==
    \E order_no \in {2}, user_id \in {3}, product_id \in {1, 2}, quantity \in Quantities :
        /\ Len(db.orders) < MaxOrders
        /\ LET r == settle_order(db, order_no, user_id, product_id, quantity, 0)
           IN  /\ IF r.ok THEN Commit(r) ELSE Abandon(r)
               /\ last' = IF r.ok
                          THEN [NoArgs EXCEPT !.op = "settle_order", !.order_no = order_no,
                                              !.user_id = user_id, !.product_id = product_id,
                                              !.quantity = quantity]
                          ELSE Failed("settle_order", r.err)
        /\ UNCHANGED <<refunds, sess>>

FrameNext ==
    \/ FrameSettle
    \/ RefundOrder
    \/ AuditRewards
    \/ ApplyWithdrawal
    \/ AuditWithdrawal
    \/ DistributeSubsidy
    \/ CheckDirectorPromotion

FrameSpec == FrameInit /\ [][FrameNext]_vars

\* ------------------------------------------ concurrent reward audits
\* Users 2 and 3 have each bought the member product, which queued a referral
\* reward for user 1 and one for user 2. audit_and_distribute_rewards selects
\* the pending rewards of its batch with a plain SELECT, and inserts and
\* updates afterwards.
RewardConcInit ==
    /\ db = settle_order(settle_order(InitDb, 1, 2, 1, 1, 0).db, 2, 3, 1, 1, 0).db
    /\ committed = db
    /\ last = NoArgs
    /\ refunds = [o \in OrderNos |-> 0]
    /\ npending = 0
    /\ sess = [s \in Sessions |-> Idle]

RewardAuditRecord(ok, err, reward_ids, approve) ==
    [NoArgs EXCEPT !.op = "audit_and_distribute_rewards", !.ok = ok, !.err = err,
                   !.ids = reward_ids, !.approve = approve]

\* audit_and_distribute_rewards, lines 398-412: the SELECT of the pending
\* rewards of the batch
RewardRead(s) ==
    \E reward_ids \in SUBSET RewardIds, approve \in BOOLEAN :
        /\ sess[s].pc = "idle"
        /\ LET r == audit_and_distribute_rewards(committed, reward_ids, approve)
           IN  IF r.ok
               THEN /\ sess' = [sess EXCEPT ![s] =
                                  [Idle EXCEPT !.pc = "rewards_read", !.ids = reward_ids,
                                               !.found = PendingIds(committed, reward_ids),
                                               !.approve = approve]]
                    /\ last' = last
               ELSE /\ sess' = sess
                    /\ last' = RewardAuditRecord(FALSE, r.err, reward_ids, approve)
        /\ UNCHANGED committed
        /\ ConcFrame

\* audit_and_distribute_rewards, lines 414-452: the coupons and the status
\* updates for the rewards that were selected, or the rejection of the batch,
\* and the commit
RewardFinish(s) ==
    /\ sess[s].pc = "rewards_read"
    /\ committed' = IF sess[s].approve
                    THEN ApproveLoop(committed, sess[s].found)
                    ELSE RejectAll(committed, sess[s].ids)
    /\ last' = RewardAuditRecord(TRUE, "", sess[s].ids, sess[s].approve)
    /\ sess' = [sess EXCEPT ![s] = Idle]
    /\ ConcFrame

RewardConcNext == \E s \in Sessions : RewardRead(s) \/ RewardFinish(s)

RewardConcSpec == RewardConcInit /\ [][RewardConcNext]_vars

\* ------------------------------------------- a member at the level cap
\* A buyer who has bought the member product CapHistory times, one unit a day,
\* buys on and has orders refunded, each order at most once.
CapBuyers == {2}

\* more than 24 hours pass: no order counts towards the purchase limit any more
Aged(d) ==
    [d EXCEPT !.orders = [i \in DOMAIN d.orders |-> [d.orders[i] EXCEPT !.recent = FALSE]]]

\* the store after user_id has settled n member orders of quantity 1, numbered
\* 1..n, a day apart
RECURSIVE Bought(_, _)
Bought(user_id, n) ==
    IF n = 0 THEN InitDb
    ELSE Aged(settle_order(Bought(user_id, n - 1), n, user_id, 1, 1, 0).db)

CapInit ==
    /\ \E user_id \in CapBuyers : db = Bought(user_id, CapHistory)
    /\ committed = db
    /\ last = NoArgs
    /\ refunds = [o \in OrderNos |-> 0]
    /\ npending = 0
    /\ sess = [s \in Sessions |-> Idle]

CapSettle ==
    \E user_id \in CapBuyers, quantity \in Quantities :
        /\ Len(db.orders) < CapHistory + CapNewOrders
        /\ LET order_no == Len(db.orders) + 1
               r == settle_order(db, order_no, user_id, 1, quantity, 0)
           IN  /\ IF r.ok THEN Commit(r) ELSE Abandon(r)
               /\ last' = IF r.ok
                          THEN [NoArgs EXCEPT !.op = "settle_order", !.order_no = order_no,
                                              !.user_id = user_id, !.product_id = 1,
                                              !.quantity = quantity]
                          ELSE Failed("settle_order", r.err)
        /\ UNCHANGED <<refunds, sess>>

CapRefund ==
    \E i \in 1..Len(db.orders) :
        /\ db.orders[i].refund_status # "refunded"
        /\ LET order_no == db.orders[i].order_no
               r == refund_order(db, order_no)
           IN  /\ IF r.ok THEN Commit(r) ELSE Rollback
               /\ last' = IF r.ok
                          THEN [NoArgs EXCEPT !.op = "refund_order", !.order_no = order_no]
                          ELSE Failed("refund_order", r.err)
        /\ UNCHANGED <<refunds, sess>>

CapNext == CapSettle \/ CapRefund

CapSpec == CapInit /\ [][CapNext]_vars

\* ------------------------------------------------------------ observations
SettleStep == last'.op = "settle_order" /\ last'.ok
RefundStep == last'.op = "refund_order" /\ last'.ok

\* the order row a successful settlement has just inserted
NewOrder(d) == d.orders[Len(d.orders)]

OrderByNo(d, order_no) ==
    d.orders[CHOOSE i \in 1..Len(d.orders) : d.orders[i].order_no = order_no]

PoolSum(d) ==
    d.accounts["public_welfare"] + d.accounts["platform"] + d.accounts["subsidy_pool"]
    + d.accounts["honor_director"] + d.accounts["community"] + d.accounts["city_center"]
    + d.accounts["region_company"] + d.accounts["development"]

\* what a step credited to the eight pools and as revenue share (cents)
Credited(d0, d1, merchant_id) ==
    (PoolSum(d1) - PoolSum(d0))
    + (d1.accounts["platform_revenue_pool"] - d0.accounts["platform_revenue_pool"])
    + (IF merchant_id # PLATFORM_MERCHANT_ID
       THEN d1.users[merchant_id].merchant_balance - d0.users[merchant_id].merchant_balance
       ELSE 0)

Abs(x) == IF x < 0 THEN -x ELSE x

\* C1: every successful settle_order credits, to the eight pools plus the 80%
\* revenue share, exactly the order's paid amount: no money is created or
\* destroyed.
C1_ExactConservation ==
    [][SettleStep =>
        Credited(db, db', Products[last'.product_id].merchant_id)
            = NewOrder(db').total_amount]_vars

\* What the credits do satisfy: each is rounded to two decimals as it is
\* stored, so their sum is within 2 cents of the paid amount, and equal to it
\* when the paid amount is a whole multiple of 2.00.
ConservationUpToRounding ==
    [][SettleStep =>
        LET paid == NewOrder(db').total_amount
            sum == Credited(db, db', Products[last'.product_id].merchant_id)
        IN  /\ Abs(sum - paid) <= 2
            /\ (paid % 200 = 0 => sum = paid)]_vars

\* C2: after a settle_order that failed, the session holds none
\* of the call's mutations: what a later statement of the session reads, and
\* what its next commit makes durable, is the committed store.
C2_FailedSettleLeavesNothing ==
    (last.op = "settle_order" /\ ~last.ok) => db = committed

\* C4: an order's effects are reversed at most once: no order_no
\* is refunded successfully twice.
C4_RefundAtMostOnce == \A o \in OrderNos : refunds[o] <= 1

NonNegative(d) ==
    /\ \A a \in AccountTypes : d.accounts[a] >= 0
    /\ \A u \in Users :
          /\ d.users[u].points >= 0
          /\ d.users[u].promotion_balance >= 0
          /\ d.users[u].merchant_points >= 0
          /\ d.users[u].merchant_balance >= 0

\* C5: no successful refund_order leaves a balance below zero.
C5_RefundKeepsBalancesNonNegative ==
    (last.op = "refund_order" /\ last.ok) => NonNegative(committed)

\* the rows a step appended to a table
NewRows(s0, s1) == SubSeq(s1, Len(s0) + 1, Len(s1))

IsMemberOrderNo(d, order_no) == HasOrderNo(d, order_no) /\ OrderByNo(d, order_no).is_member_order

\* C7: a successful refund of a member-product order lowers the
\* buyer's member_level by exactly 1, whatever that level is.
C7_RefundLowersLevelByOne ==
    [][(RefundStep /\ IsMemberOrderNo(db, last'.order_no)) =>
        LET buyer == OrderByNo(db, last'.order_no).user_id
        IN  db'.users[buyer].member_level = db.users[buyer].member_level - 1]_vars

\* C7, with the floor of the level at 0: a successful refund of a member-product order lowers the
\* buyer's member_level by exactly 1, whatever the order's quantity, when the
\* level at refund time is at least 1, and leaves a level of 0 at 0.
C7_RefundLowersLevelByOneFlooredAtZero ==
    [][(RefundStep /\ IsMemberOrderNo(db, last'.order_no)) =>
        LET buyer == OrderByNo(db, last'.order_no).user_id
            level == db.users[buyer].member_level
        IN  db'.users[buyer].member_level = (IF level >= 1 THEN level - 1 ELSE 0)]_vars

\* a member order of quantity 2 has been refunded, and its buyer is at level 1
C7_Witness ==
    /\ last.op = "refund_order" /\ last.ok
    /\ IsMemberOrderNo(db, last.order_no)
    /\ LET order == OrderByNo(db, last.order_no)
       IN  /\ order.original_amount = 2 * MEMBER_PRODUCT_PRICE
           /\ db.users[order.user_id].member_level = 1

RECURSIVE SumPointsLog(_, _, _)
SumPointsLog(rows, user_id, type) ==
    IF rows = << >> THEN 0
    ELSE (IF Head(rows).user_id = user_id /\ Head(rows).type = type
          THEN Head(rows).change_amount ELSE 0)
         + SumPointsLog(Tail(rows), user_id, type)

\* C8: every successful settle_order on a non-member product with
\* points_to_use > 0 found the buyer holding at least points_to_use points,
\* redeemed points worth at most 50% of the pre-discount amount, and debited
\* the buyer's points by exactly what it credited to company_points (so a
\* request that violates either check does not succeed).
C8_PointsRedemptionChecked ==
    [][(SettleStep /\ ~Products[last'.product_id].is_member_product
                   /\ last'.points_to_use > 0) =>
        LET u == last'.user_id
            p == last'.points_to_use
            order == NewOrder(db')
            earned == SumPointsLog(NewRows(db.points_log, db'.points_log), u, "member")
            debited == db.users[u].points + earned - db'.users[u].points
            credited == db'.accounts["company_points"] - db.accounts["company_points"]
        IN  /\ db.users[u].points >= p
            /\ 2 * p * POINTS_DISCOUNT_RATE * 100 <= order.original_amount
            /\ order.points_discount = p * POINTS_DISCOUNT_RATE * 100
            /\ debited = p
            /\ credited = debited * 100]_vars

\* a normal-product order paid partly with points has been settled
C8_Witness ==
    /\ last.op = "settle_order" /\ last.ok
    /\ ~Products[last.product_id].is_member_product
    /\ last.points_to_use > 0
    /\ NewOrder(db).points_discount > 0
    /\ db.accounts["company_points"] > 0

IsReferral(r) == r.reward_type = "referral"
IsTeam(r) == r.reward_type = "team"

\* C9: a successful member-product settlement queues a referral reward
\* (beneficiary the buyer's direct referrer, half of MEMBER_PRODUCT_PRICE,
\* no layer, pending) if the buyer's level before the purchase is 0 and the
\* buyer has a referrer, and queues no referral reward otherwise.
C9_ReferralRewardIff ==
    [][(SettleStep /\ Products[last'.product_id].is_member_product) =>
        LET buyer == last'.user_id
            new == NewRows(db.pending_rewards, db'.pending_rewards)
        IN  SelectSeq(new, IsReferral) =
              IF db.users[buyer].member_level = 0 /\ db.user_referrals[buyer] # NULL
              THEN << [user_id |-> db.user_referrals[buyer], reward_type |-> "referral",
                       amount |-> MEMBER_PRODUCT_PRICE \div 2,
                       order_id |-> NewOrder(db').id, layer |-> NULL,
                       status |-> "pending"] >>
              ELSE << >>]_vars

\* a first member purchase has queued a referral reward for a referrer who is
\* not a member
C9_Witness ==
    /\ last.op = "settle_order" /\ last.ok
    /\ Products[last.product_id].is_member_product
    /\ \E i \in 1..Len(db.pending_rewards) :
          LET r == db.pending_rewards[i]
          IN  /\ r.reward_type = "referral"
              /\ r.order_id = NewOrder(db).id
              /\ r.user_id = db.user_referrals[last.user_id]
              /\ db.users[r.user_id].member_level = 0

\* the user exactly n hops up the referral chain of user_id, NULL if the
\* chain is shorter
RECURSIVE Ancestor(_, _, _)
Ancestor(d, user_id, n) ==
    IF n = 0 \/ user_id = NULL THEN user_id
    ELSE Ancestor(d, Referrer(d, user_id), n - 1)

\* C10: a member-product settlement that raises the buyer to
\* level L (other than the transition 0 -> 1, which queues no team reward)
\* queues a team reward if and only if a referrer exists exactly L hops up
\* the chain and has member_level >= L; with a shorter chain it queues none.
C10_TeamRewardIffExactLayer ==
    [][(SettleStep /\ Products[last'.product_id].is_member_product
                   /\ ~(db.users[last'.user_id].member_level = 0
                         /\ db'.users[last'.user_id].member_level = 1)) =>
        LET buyer == last'.user_id
            L == db'.users[buyer].member_level
            target == Ancestor(db, buyer, L)
            team == SelectSeq(NewRows(db.pending_rewards, db'.pending_rewards), IsTeam)
        IN  /\ (team # << >>) <=> (target # NULL /\ db'.users[target].member_level >= L)
            /\ team # << >> => (Len(team) = 1 /\ team[1].user_id = target
                                /\ team[1].layer = L)]_vars

UniqueOrderNos(d) ==
    \A i, j \in 1..Len(d.orders) : d.orders[i].order_no = d.orders[j].order_no => i = j

\* C3: no two Order rows carry the same order_no, whatever the interleaving of
\* concurrent settle_order calls: once a settlement with an order_no has
\* committed, a later or concurrent one with that order_no inserts no row.
C3_OrderNoUnique == UniqueOrderNos(committed)

\* a settle_order holds its locks and is about to insert an order_no that
\* another request has committed since it began
C3_Witness ==
    \E s \in Sessions :
        /\ sess[s].pc = "settle_user"
        /\ HasOrderNo(committed, sess[s].order_no)
        /\ last.op = "settle_order" /\ last.ok /\ last.order_no = sess[s].order_no

\* C6: under any interleaving, every user's points,
\* promotion_balance, merchant_points and merchant_balance are >= 0.
C6_UserBalancesNonNegative ==
    \A u \in Users :
        /\ committed.users[u].points >= 0
        /\ committed.users[u].promotion_balance >= 0
        /\ committed.users[u].merchant_points >= 0
        /\ committed.users[u].merchant_balance >= 0

\* C11: a member-product settlement that takes the buyer from level 0 to level
\* 1 queues no team reward, whatever the chain and the referrers' levels; it
\* queues the referral reward for the direct referrer, if any, and nothing else.
C11_NoTeamRewardOnFirstLevel ==
    [][(SettleStep /\ Products[last'.product_id].is_member_product
                   /\ db.users[last'.user_id].member_level = 0
                   /\ db'.users[last'.user_id].member_level = 1) =>
        LET buyer == last'.user_id
            new == NewRows(db.pending_rewards, db'.pending_rewards)
        IN  /\ SelectSeq(new, IsTeam) = << >>
            /\ Len(new) = (IF db.user_referrals[buyer] # NULL THEN 1 ELSE 0)
            /\ \A i \in 1..Len(new) :
                  IsReferral(new[i]) /\ new[i].user_id = db.user_referrals[buyer]]_vars

\* a buyer whose referrer is already a member has gone from level 0 to level 1
C11_Witness ==
    /\ last.op = "settle_order" /\ last.ok
    /\ Products[last.product_id].is_member_product
    /\ last.quantity = 1
    /\ db.users[last.user_id].member_level = 1
    /\ db.user_referrals[last.user_id] # NULL
    /\ db.users[db.user_referrals[last.user_id]].member_level >= 1
    /\ \E i \in 1..Len(db.pending_rewards) :
          db.pending_rewards[i].order_id = NewOrder(db).id
          /\ db.pending_rewards[i].reward_type = "referral"

\* a call of audit_and_distribute_rewards, successful or not
AuditRewardsStep == last'.op = "audit_and_distribute_rewards"

\* C12: a pending reward that has been approved or rejected is terminal: no
\* later call of audit_and_distribute_rewards, whatever ids it is given with
\* it, changes its status.
C12_AuditedRewardIsTerminal ==
    [][\A i \in 1..Len(db.pending_rewards) :
          (db.pending_rewards[i].status # "pending" /\ i <= Len(db'.pending_rewards))
          => db'.pending_rewards[i].status = db.pending_rewards[i].status]_vars

\* the ids of the batch whose reward exists and is pending in store d
StillPending(d, ids) ==
    {i \in ids : i <= Len(d.pending_rewards) /\ d.pending_rewards[i].status = "pending"}

\* rows is, in some order, one row want[i] for each i of the domain of want
OnePerId(rows, want) ==
    \E g \in [1..Len(rows) -> DOMAIN want] :
        /\ \A i \in DOMAIN want : \E k \in 1..Len(rows) : g[k] = i
        /\ \A k, l \in 1..Len(rows) : g[k] = g[l] => k = l
        /\ \A k \in 1..Len(rows) : rows[k] = want[g[k]]

\* C13: an approving audit_and_distribute_rewards call creates, for each id of
\* the batch that is pending, exactly one unused coupon of type user for the
\* reward's beneficiary with the reward's amount, sets that reward to approved
\* and appends one zero-amount flow of type coupon; the other ids of the batch
\* produce no coupon and their rewards, like all others, are left unchanged.
C13_ApproveMintsOneCouponPerPendingId ==
    [][(AuditRewardsStep /\ last'.ok /\ last'.approve) =>
        LET P == StillPending(db, last'.ids)
            Minted == [i \in P |->
                            [user_id |-> db.pending_rewards[i].user_id,
                             coupon_type |-> "user",
                             amount |-> db.pending_rewards[i].amount, status |-> "unused"]]
            Flows == [i \in P |->
                         [account_type |-> "coupon",
                          related_user |-> db.pending_rewards[i].user_id,
                          change_amount |-> 0, balance_after |-> 0, flow_type |-> "coupon"]]
        IN  /\ P # {}
            /\ Len(db'.coupons) = Len(db.coupons) + Cardinality(P)
            /\ SubSeq(db'.coupons, 1, Len(db.coupons)) = db.coupons
            /\ OnePerId(NewRows(db.coupons, db'.coupons), Minted)
            /\ OnePerId(NewRows(db.account_flow, db'.account_flow), Flows)
            /\ Len(db'.pending_rewards) = Len(db.pending_rewards)
            /\ \A i \in 1..Len(db.pending_rewards) :
                  db'.pending_rewards[i] =
                      IF i \in P THEN [db.pending_rewards[i] EXCEPT !.status = "approved"]
                      ELSE db.pending_rewards[i]
            /\ committed' = db']_vars

\* a batch of one pending and one already audited reward has been approved
C13_Witness ==
    /\ last.op = "audit_and_distribute_rewards" /\ last.ok /\ last.approve
    /\ last.ids = {1, 2}
    /\ Len(db.pending_rewards) = 2
    /\ Len(db.coupons) = 1
    /\ db.pending_rewards[1].status = "rejected"
    /\ db.pending_rewards[2].status = "approved"
    /\ db.coupons[1].user_id = db.pending_rewards[2].user_id

\* C14: audit_and_distribute_rewards returns failure to its caller and changes
\* no reward, coupon or flow when the id list is empty or when none of the
\* given ids is that of a reward that is pending.
C14_AuditOfNothingPendingFails ==
    [][(AuditRewardsStep /\ StillPending(db, last'.ids) = {}) =>
        /\ ~last'.ok
        /\ last'.err = (IF last'.ids = {} THEN "EmptyRewardIds" ELSE "NoPendingRewards")
        /\ db'.pending_rewards = db.pending_rewards
        /\ db'.coupons = db.coupons
        /\ db'.account_flow = db.account_flow
        /\ committed' = committed]_vars

\* a rejecting audit of one approved reward has failed
C14_Witness ==
    /\ last.op = "audit_and_distribute_rewards" /\ ~last.ok
    /\ last.err = "NoPendingRewards"
    /\ ~last.approve
    /\ \E i \in last.ids : /\ i <= Len(db.pending_rewards)
                           /\ db.pending_rewards[i].status = "approved"
    /\ Len(db.coupons) = 1

\* a successful call of apply_withdrawal, and the row it has inserted
ApplyStep == last'.op = "apply_withdrawal" /\ last'.ok
NewWithdrawal(d) == d.withdrawals[Len(d.withdrawals)]

\* C15: a successful apply_withdrawal of amount A stores tax_amount =
\* A * TAX_RATE and actual_amount = A * (1 - TAX_RATE), so that tax_amount +
\* actual_amount = A, credits exactly tax_amount to company_balance, and sets
\* status pending_manual when A is above 5000.00 and pending_auto otherwise.
C15_TaxAndActualSplitAmount ==
    [][ApplyStep =>
        LET w == NewWithdrawal(db')
        IN  /\ w.amount = last'.amount
            /\ w.tax_amount * 1000 = w.amount * TAX_RATE_PERMILLE
            /\ w.actual_amount * 1000 = w.amount * (1000 - TAX_RATE_PERMILLE)
            /\ w.tax_amount + w.actual_amount = w.amount
            /\ db'.accounts["company_balance"] = db.accounts["company_balance"] + w.tax_amount
            /\ w.status = (IF w.amount > MANUAL_THRESHOLD THEN "pending_manual"
                           ELSE "pending_auto")]_vars

\* C16: apply_withdrawal debits exactly the requested amount from the balance
\* its type selects (promotion_balance for user, merchant_balance for
\* merchant) when that balance is at least the amount, and inserts the
\* withdrawal; when the balance is smaller the call fails, no withdrawal is
\* created and no balance, pool or flow changes: the store is left as it was
\* committed and the session holds nothing uncommitted.
C16_WithdrawalDebitsOrFails ==
    [][(last'.op = "apply_withdrawal") =>
        LET u == last'.user_id
            field == IF last'.kind = "user" THEN "promotion_balance" ELSE "merchant_balance"
            other == IF last'.kind = "user" THEN "merchant_balance" ELSE "promotion_balance"
        IN  /\ last'.ok <=> db.users[u][field] >= last'.amount
            /\ last'.ok =>
                  /\ db'.users[u][field] = db.users[u][field] - last'.amount
                  /\ db'.users[u][other] = db.users[u][other]
                  /\ \A v \in Users \ {u} : db'.users[v] = db.users[v]
                  /\ Len(db'.withdrawals) = Len(db.withdrawals) + 1
                  /\ NewWithdrawal(db').user_id = u
                  /\ NewWithdrawal(db').amount = last'.amount
            /\ ~last'.ok =>
                  /\ committed' = committed
                  /\ db' = committed
                  /\ db'.withdrawals = db.withdrawals]_vars

\* a merchant has withdrawn part of a positive balance
C16_Witness ==
    /\ last.op = "apply_withdrawal" /\ last.ok
    /\ last.kind = "merchant"
    /\ Len(db.withdrawals) = 1
    /\ NewWithdrawal(db).amount = last.amount
    /\ db.users[last.user_id].merchant_balance > 0

\* session s completes an audit it holds the row lock for
AuditFinishStep(s) == sess[s].pc = "audit_locked" /\ sess'[s].pc = "idle"

Audited(w) == w.status \in {"approved", "rejected"}

\* C17: audit_withdrawal is terminal. It succeeds only on a withdrawal that is
\* pending_auto or pending_manual when it acts, and then moves it to approved
\* or rejected; an approved or rejected withdrawal never changes again: every
\* later audit of it, also one that raced with the first, fails and changes
\* nothing; an audit of an id that no withdrawal has fails.
C17_AuditWithdrawalIsTerminal ==
    [][/\ \A i \in 1..Len(committed.withdrawals) :
             Audited(committed.withdrawals[i])
             => committed'.withdrawals[i] = committed.withdrawals[i]
       /\ \A i \in 1..Len(committed.withdrawals) :
             committed'.withdrawals[i] # committed.withdrawals[i]
             => \E s \in Sessions : AuditFinishStep(s) /\ sess[s].id = i /\ last'.ok
       /\ \A s \in Sessions : AuditFinishStep(s) =>
             /\ last'.op = "audit_withdrawal" /\ last'.id = sess[s].id
             /\ sess[s].id <= Len(committed.withdrawals)
             /\ committed.withdrawals[sess[s].id].status \in {"pending_auto", "pending_manual"}
             /\ last'.ok => committed'.withdrawals[sess[s].id].status =
                               (IF sess[s].approve THEN "approved" ELSE "rejected")
             /\ ~last'.ok => committed' = committed
       /\ (sess' = sess /\ last'.op = "audit_withdrawal") =>
             /\ ~last'.ok
             /\ committed' = committed
             /\ (last'.id > Len(committed.withdrawals)
                 \/ Audited(committed.withdrawals[last'.id]))]_vars

\* an audit of a withdrawal that another audit has approved has failed
C17_Witness ==
    /\ last.op = "audit_withdrawal" /\ ~last.ok
    /\ last.err = "NotFoundOrProcessed"
    /\ last.id <= Len(committed.withdrawals)
    /\ committed.withdrawals[last.id].status = "approved"

\* C18: audit_withdrawal(id, approve = false) on a pending withdrawal succeeds,
\* sets its status to rejected and credits the withdrawal's gross amount back
\* to the balance apply_withdrawal debited for it.
C18_RejectReturnsGrossAmount ==
    [][(last'.op = "audit_withdrawal" /\ ~last'.approve
        /\ last'.id <= Len(db.withdrawals)
        /\ db.withdrawals[last'.id].status \in {"pending_auto", "pending_manual"}) =>
        LET w == db.withdrawals[last'.id]
        IN  /\ last'.ok
            /\ db'.withdrawals[last'.id].status = "rejected"
            /\ \E field \in {"promotion_balance", "merchant_balance"} :
                  db'.users[w.user_id][field] = db.users[w.user_id][field] + w.amount]_vars

\* a successful run of distribute_weekly_subsidy
SubsidyStep == last'.op = "distribute_weekly_subsidy" /\ last'.ok

\* the users of store d whose balance of the given points is positive
Holders(d, field) == {u \in Users : d.users[u][field] > 0}

\* the coupons of type coupon_type for user u among the sequence rows
CouponsFor(rows, u, coupon_type) ==
    {k \in 1..Len(rows) : rows[k].user_id = u /\ rows[k].coupon_type = coupon_type}

\* a run mints one user coupon of points * points_value for every user with
\* positive points
SubsidyMintsUserCoupons ==
    [][SubsidyStep =>
        LET new == NewRows(db.coupons, db'.coupons)
        IN  \A u \in Holders(db, "points") :
              /\ Cardinality(CouponsFor(new, u, "user")) = 1
              /\ \A k \in CouponsFor(new, u, "user") :
                    new[k].amount = RoundMilli(SubsidyAmount(db, db.users[u].points).milli)]_vars

\* C19: a run of distribute_weekly_subsidy mints one coupon for every user
\* with positive points and one for every merchant with positive
\* merchant_points, each worth the holder's points * points_value, where
\* points_value = min(subsidy_pool / (user points + merchant points +
\* company_points), MAX_POINTS_VALUE).
C19_SubsidyMintsCouponPerHolder ==
    [][SubsidyStep =>
        LET new == NewRows(db.coupons, db'.coupons)
        IN  /\ Len(new) = Cardinality(Holders(db, "points"))
                          + Cardinality(Holders(db, "merchant_points"))
            /\ \A u \in Holders(db, "points") :
                  \E k \in CouponsFor(new, u, "user") :
                     new[k].amount = RoundMilli(SubsidyAmount(db, db.users[u].points).milli)
            /\ \A u \in Holders(db, "merchant_points") :
                  \E k \in CouponsFor(new, u, "merchant") :
                     new[k].amount =
                         RoundMilli(SubsidyAmount(db, db.users[u].merchant_points).milli)]_vars

\* C20: distribute_weekly_subsidy leaves the subsidy_pool balance and the
\* company_points balance as it found them, whether it mints coupons or fails.
C20_SubsidyLeavesPoolAndCompanyPoints ==
    [][(last'.op = "distribute_weekly_subsidy") =>
        /\ db'.accounts["subsidy_pool"] = db.accounts["subsidy_pool"]
        /\ db'.accounts["company_points"] = db.accounts["company_points"]
        /\ db'.accounts = db.accounts]_vars

\* a run has minted a coupon from a funded pool while company points exist
C20_Witness ==
    /\ last.op = "distribute_weekly_subsidy" /\ last.ok
    /\ Len(db.coupons) >= 1
    /\ Len(db.weekly_subsidy_records) >= 1
    /\ db.accounts["subsidy_pool"] > 0
    /\ db.accounts["company_points"] > 0

\* the member-product orders of user u created in the last 24 hours
RecentMemberOrders(d, u) ==
    {i \in 1..Len(d.orders) :
        d.orders[i].user_id = u /\ d.orders[i].is_member_order /\ d.orders[i].recent}

\* C21: no user ever has more than MAX_PURCHASE_PER_DAY member-product orders
\* settled within 24 hours, also when settlements of one user, for the same
\* or for different member products, run concurrently.
C21_MemberOrdersWithinLimit ==
    \A u \in Users : Cardinality(RecentMemberOrders(committed, u)) <= MAX_PURCHASE_PER_DAY

\* C22: row locks are taken in one global order, so no two concurrent
\* operations ever each hold a row lock the other is waiting for.
C22_NoLockCycle ==
    \A s, t \in Sessions : ~(WaitsFor(s, t) /\ WaitsFor(t, s))

\* session s has all its row locks and cannot go on before session t commits
WaitsForPools(s, t) ==
    /\ s # t
    /\ sess[s].pc = "settle_user"
    /\ Pending(s).ok
    /\ HoldsPools(t)

\* C23: two settle_order calls for different buyers and different products
\* never wait for each other: neither blocks on a row lock the other holds.
C23_DisjointSettlementsNeverWait ==
    \A s, t \in Sessions :
        WaitsForPools(s, t)
        => (sess[s].user_id = sess[t].user_id \/ sess[s].product_id = sess[t].product_id)

\* C24: a successful member-product settlement with quantity q sets the
\* buyer's member_level to min(old level + q, 6), and before and after every
\* step, settlement or refund, every user's member_level lies in 0..6.
C24_LevelCappedAtSix ==
    [][/\ \A u \in Users : /\ db.users[u].member_level \in 0..6
                           /\ db'.users[u].member_level \in 0..6
       /\ (SettleStep /\ Products[last'.product_id].is_member_product) =>
             LET old == db.users[last'.user_id].member_level
             IN  db'.users[last'.user_id].member_level =
                     (IF old + last'.quantity < 6 THEN old + last'.quantity ELSE 6)]_vars

\* a buyer one refund below the cap has bought two units and is at level 6
C24_Witness ==
    /\ last.op = "settle_order" /\ last.ok
    /\ last.quantity = 2
    /\ db.users[last.user_id].member_level = 6
    /\ \E i \in 1..Len(db.orders) : db.orders[i].refund_status = "refunded"

\* the points-log records of type member that a step has added for user u
BuyerPointRows(u) ==
    SelectSeq(NewRows(db.points_log, db'.points_log),
              LAMBDA r : r.user_id = u /\ r.type = "member")

\* C25: a settlement credits the buyer with the paid amount truncated to whole
\* points on every member-product order, and on a normal-product order if and
\* only if the buyer's member_level before the order is at least 1; each
\* credit comes with one points-log record whose change is the credit and
\* whose balance_after is the buyer's points after the credit.
C25_BuyerPointsCredited ==
    [][SettleStep =>
        LET buyer == last'.user_id
            paid == NewOrder(db').total_amount
            credit == (paid - (paid % 100)) \div 100
            earns == Products[last'.product_id].is_member_product
                     \/ db.users[buyer].member_level >= 1
            rows == BuyerPointRows(buyer)
            redeemed == IF Products[last'.product_id].is_member_product THEN 0
                        ELSE last'.points_to_use
        IN  /\ db'.users[buyer].points =
                   db.users[buyer].points - redeemed + (IF earns THEN credit ELSE 0)
            /\ Len(rows) = (IF earns THEN 1 ELSE 0)
            /\ earns => /\ rows[1].change_amount = credit
                        /\ rows[1].balance_after = db'.users[buyer].points
                        /\ rows[1].related_order = NewOrder(db').id]_vars

\* a member has bought the platform's 9.90 product and earned 9 points
C25_Witness ==
    /\ last.op = "settle_order" /\ last.ok
    /\ last.product_id = 3 /\ last.quantity = 1 /\ last.points_to_use = 0
    /\ db.users[last.user_id].member_level >= 1
    /\ db.points_log[Len(db.points_log)].user_id = last.user_id
    /\ db.points_log[Len(db.points_log)].change_amount = 9

\* C26: on a normal-product settlement the 80% share of the paid amount, as
\* the balance column stores it, goes to the selling merchant's
\* merchant_balance when the merchant is not the platform and to
\* platform_revenue_pool otherwise, never to both; a merchant other than the
\* platform also receives the truncated 20% of the paid amount as
\* merchant_points, and a platform sale credits merchant points to nobody.
C26_RevenueShareToSeller ==
    [][(SettleStep /\ ~Products[last'.product_id].is_member_product) =>
        LET merchant == Products[last'.product_id].merchant_id
            paid == NewOrder(db').total_amount
            share == RoundMilli(paid * 800)
            mpoints == (paid * 200) \div 100000
            pool0 == db.accounts["platform_revenue_pool"]
            pool1 == db'.accounts["platform_revenue_pool"]
        IN  /\ \A u \in Users \ {merchant} :
                  /\ db'.users[u].merchant_balance = db.users[u].merchant_balance
                  /\ db'.users[u].merchant_points = db.users[u].merchant_points
            /\ merchant = PLATFORM_MERCHANT_ID => pool1 = pool0 + share
            /\ merchant # PLATFORM_MERCHANT_ID =>
                  /\ pool1 = pool0
                  /\ db'.users[merchant].merchant_balance =
                         db.users[merchant].merchant_balance + share
                  /\ db'.users[merchant].merchant_points =
                         db.users[merchant].merchant_points + mpoints]_vars

\* merchant 1 has sold its product for 499.00 after a discount of one point
C26_Witness ==
    /\ last.op = "settle_order" /\ last.ok
    /\ last.product_id = 2 /\ last.quantity = 1 /\ last.points_to_use = 1
    /\ NewOrder(db).total_amount = 49900
    /\ db.users[1].merchant_balance >= 39920
    /\ db.users[1].merchant_points >= 99

\* the flow entries of store d for the public_welfare pool
WelfareFlows(d) == SelectSeq(d.account_flow, LAMBDA f : f.account_type = "public_welfare")

RECURSIVE SumChanges(_, _)
\* the sum of change_amount over the first n entries of flows
SumChanges(flows, n) ==
    IF n = 0 THEN 0 ELSE flows[n].change_amount + SumChanges(flows, n - 1)

\* C27: every settlement that credits public_welfare records, in the same
\* transaction, exactly one income flow entry for public_welfare whose
\* change_amount is the credited amount and whose balance_after is the pool's
\* balance after the credit; and in every state the public_welfare balance is
\* the sum of its flow entries.
C27_WelfareCreditsHaveFlows ==
    [][/\ db'.accounts["public_welfare"] = SumChanges(WelfareFlows(db'), Len(WelfareFlows(db')))
       /\ SettleStep =>
             LET new == NewRows(WelfareFlows(db), WelfareFlows(db'))
             IN  /\ db'.accounts["public_welfare"] > db.accounts["public_welfare"]
                 /\ Len(new) = 1
                 /\ new[1].flow_type = "income"
                 /\ new[1].change_amount =
                        db'.accounts["public_welfare"] - db.accounts["public_welfare"]
                 /\ new[1].balance_after = db'.accounts["public_welfare"]
                 /\ committed' = db']_vars

\* a 9.90 order has credited 0.10 to public_welfare, with its flow entry
C27_Witness ==
    /\ last.op = "settle_order" /\ last.ok
    /\ last.product_id = 3 /\ last.quantity = 1 /\ last.points_to_use = 0
    /\ Len(WelfareFlows(db)) = 2
    /\ WelfareFlows(db)[2].change_amount = 10
    /\ WelfareFlows(db)[2].balance_after = db.accounts["public_welfare"]

\* C28: a successful refund_order debits exactly 80% of the order's paid
\* amount from the party that received the share at settlement:
\* platform_revenue_pool for a member order and for a normal order sold by the
\* platform, the merchant's merchant_balance for a normal order sold by a
\* merchant; and in each of the three cases the party's balance was at least
\* that amount when the refund ran.
C28_RefundDebitsCheckedShare ==
    [][RefundStep =>
        LET o == OrderByNo(db, last'.order_no)
            share == RoundMilli(o.total_amount * 800)
            pool0 == db.accounts["platform_revenue_pool"]
            pool1 == db'.accounts["platform_revenue_pool"]
        IN  IF o.is_member_order \/ o.merchant_id = PLATFORM_MERCHANT_ID
            THEN /\ pool0 >= share
                 /\ pool1 = pool0 - share
                 /\ \A u \in Users : db'.users[u].merchant_balance = db.users[u].merchant_balance
            ELSE /\ db.users[o.merchant_id].merchant_balance >= share
                 /\ db'.users[o.merchant_id].merchant_balance =
                        db.users[o.merchant_id].merchant_balance - share
                 /\ pool1 = pool0]_vars

\* the income flow entries of store d for the promotion_balance of user u
PromotionIncome(d, u) ==
    SelectSeq(d.account_flow,
              LAMBDA f : /\ f.account_type = "promotion_balance"
                         /\ f.related_user = u
                         /\ f.flow_type = "income")

\* the rewards of pending_rewards recorded for an order in favour of user u
RewardsOf(d, order_id, u) ==
    SelectSeq(d.pending_rewards, LAMBDA r : r.order_id = order_id /\ r.user_id = u)

FundedAccounts == DOMAIN ALLOCATIONS \cup {"company_points"}

C31_AtMostOneReferrer ==
    [][/\ \A u \in Users :
             committed.user_referrals[u] # NULL =>
                committed'.user_referrals[u] = committed.user_referrals[u]
       /\ (last'.op = "set_referrer" /\ ~last'.ok) =>
             committed'.user_referrals = committed.user_referrals
       /\ (last'.op = "set_referrer" /\ last'.ok /\ committed' # committed) =>
             /\ last'.referrer_id \in Users
             /\ last'.referrer_id # last'.user_id
             /\ committed.user_referrals[last'.user_id] = NULL
             /\ committed'.user_referrals =
                  [committed.user_referrals EXCEPT ![last'.user_id] = last'.referrer_id]
      ]_vars

\* two calls for the same user raced: one stored its edge, the other got past
\* the tests and failed on the insert
C31_Witness ==
    /\ last.op = "set_referrer" /\ ~last.ok /\ last.err = "IntegrityError"
    /\ committed.user_referrals[last.user_id] # NULL
    /\ committed.user_referrals[last.user_id] # last.referrer_id

\* C32: every referral-chain walk ends within MAX_TEAM_LAYER hops, on cyclic
\* relations too, and ends earlier only at a user without a referrer: the
\* reward walk follows at most new_level <= 6 edges, the rows of get_user_team
\* and of the director downline lie in layers 1..max_layer <= 6, and the
\* transaction chain holds at most 6 users.
C32_WalksAreBounded ==
    /\ last.op = "team_walk" =>
          /\ last.amount <= last.quantity
          /\ last.quantity <= MAX_TEAM_LAYER
          /\ last.amount < last.quantity =>
                Referrer(db, Ancestor(db, last.user_id, last.amount)) = NULL
          /\ last.id = IF last.amount = 0 THEN NULL
                       ELSE Ancestor(db, last.user_id, last.amount)
    /\ last.op = "get_user_team" =>
          /\ Layers(last.ids) \subseteq 1..last.quantity
          /\ last.quantity <= MAX_TEAM_LAYER
    /\ last.op = "director_team" => Layers(last.ids) \subseteq 1..MAX_TEAM_LAYER
    /\ last.op = "transaction_chain" =>
          /\ last.amount \in 1..MAX_TEAM_LAYER
          /\ last.amount < MAX_TEAM_LAYER => Referrer(db, last.id) = NULL

\* a downline enumeration over a referral cycle has run to the last layer
C32_Witness ==
    /\ last.op = "get_user_team"
    /\ last.quantity = MAX_TEAM_LAYER
    /\ \E r \in last.ids : r[2] = MAX_TEAM_LAYER /\ r[1] = last.user_id
    /\ \E u \in Users : Ancestor(db, u, 2) = u /\ Referrer(db, u) # u

\* the users at most six referral edges below user x
Downline(d, x) == {u \in DOMAIN d.users : \E k \in 1..6 : Ancestor(d, u, k) = x}

\* a six-star user with at least 3 six-star users directly below and at least
\* 10 six-star users in the downline
Qualifies(d, x) ==
    /\ d.users[x].member_level = 6
    /\ Cardinality({u \in DOMAIN d.users :
                       Referrer(d, u) = x /\ d.users[u].member_level = 6}) >= 3
    /\ Cardinality({u \in Downline(d, x) : d.users[u].member_level = 6}) >= 10

\* C33: a run of check_director_promotion turns into honor directors (status
\* 9) exactly the users that qualify and are not honor directors yet, counts
\* them, and changes nothing else of any user; a run that follows a run
\* promotes nobody.
C33_PromotesExactlyQualified ==
    [][(last'.op = "check_director_promotion") =>
        /\ \A u \in DOMAIN db.users :
              /\ db'.users[u] =
                   IF Qualifies(db, u) /\ db.users[u].status # 9
                   THEN [db.users[u] EXCEPT !.status = 9]
                   ELSE db.users[u]
              /\ committed'.users[u] = db'.users[u]
        /\ last'.amount =
             Cardinality({u \in DOMAIN db.users : Qualifies(db, u) /\ db.users[u].status # 9})
        /\ last.op = "check_director_promotion" =>
              (last'.amount = 0 /\ db'.users = db.users)]_vars

\* a run has promoted user 1 and nobody else, in a population that holds a
\* five-star member
C33_Witness ==
    /\ last.op = "check_director_promotion"
    /\ last.amount = 1
    /\ db.users[1].status = 9
    /\ \E u \in DOMAIN db.users : db.users[u].member_level = 5
    /\ \A u \in DOMAIN db.users \ {1} : db.users[u].status = 1

\* the units of member product bought with order o
UnitsOf(o) == IF o.is_member_order THEN o.original_amount \div MEMBER_PRODUCT_PRICE ELSE 0

\* the points order o credits to a buyer who is a member, less those it redeems
NetPointsOf(o) == IntOfCents(o.total_amount) - o.points_discount \div 100

RECURSIVE SumOrders(_, _, _, _)
\* the sum of UnitsOf (units = TRUE) or NetPointsOf over the first n orders of user u
SumOrders(orders, n, u, units) ==
    IF n = 0 THEN 0
    ELSE (IF orders[n].user_id # u THEN 0
          ELSE IF units THEN UnitsOf(orders[n]) ELSE NetPointsOf(orders[n]))
         + SumOrders(orders, n - 1, u, units)

\* C34: whatever way concurrent settlements of one buyer interleave, the
\* stored member_level of the buyer is min(units of member product bought, 6)
\* and the stored points are the credits of all the buyer's orders less the
\* points they redeemed: no committed settlement is lost.
C34_NoLostUpdate ==
    \A u \in RaceBuyers :
        /\ committed.users[u].member_level =
             Min(SumOrders(committed.orders, Len(committed.orders), u, TRUE), MAX_LEVEL)
        /\ committed.users[u].points =
             SumOrders(committed.orders, Len(committed.orders), u, FALSE)

\* both settlements have committed: a member order that met the cap and a
\* normal order that redeemed a point
C34_Witness ==
    /\ last.op = "settle_order" /\ last.ok
    /\ Len(committed.orders) = 3
    /\ \E i, j \in 2..3 :
          /\ committed.orders[i].is_member_order
          /\ UnitsOf(committed.orders[i]) = 2
          /\ committed.orders[j].points_discount > 0
    /\ committed.users[2].member_level = MAX_LEVEL

\* every reward of rows is still there, at its place and with all its fields
RewardsKept(before, after) ==
    /\ Len(after) >= Len(before)
    /\ \A i \in 1..Len(before) : after[i] = before[i]

\* C35: a step of any operation other than audit_and_distribute_rewards
\* (settle_order, refund_order, apply_withdrawal, audit_withdrawal,
\* distribute_weekly_subsidy, check_director_promotion) leaves every existing
\* pending reward as it was, in the stored rows and in the session's view;
\* settle_order only appends rewards.
C35_RewardsChangedOnlyByAudit ==
    [][(last'.op # "audit_and_distribute_rewards") =>
        /\ RewardsKept(committed.pending_rewards, committed'.pending_rewards)
        /\ RewardsKept(db.pending_rewards, db'.pending_rewards)
        /\ (last'.op # "settle_order") =>
              /\ committed'.pending_rewards = committed.pending_rewards
              /\ db'.pending_rewards = db.pending_rewards]_vars

\* the order that queued a reward has been refunded and the reward is still
\* pending
C35_Witness ==
    /\ last.op = "refund_order" /\ last.ok
    /\ \E i \in 1..Len(db.pending_rewards) :
          /\ db.pending_rewards[i].order_id = OrderByNo(db, last.order_no).id
          /\ db.pending_rewards[i].status = "pending"

\* user u is their own ancestor
OwnAncestor(d, u) == \E k \in 1..Cardinality(DOMAIN d.user_referrals) : Ancestor(d, u, k) = u

\* C36: starting from a store with no referral edges, successful set_referrer
\* calls never make a user their own ancestor.
C36_ReferralsAcyclic == \A u \in Users : ~OwnAncestor(committed, u)

\* C36, as the code has it: set_referrer refuses only the cycle of length 1,
\* so no user is ever their own referrer; a root user can still be given one
\* of their descendants as referrer.
C36_NoSelfReferral == \A u \in Users : committed.user_referrals[u] # u

\* a root user has been given their own child as referrer
C36_Witness ==
    /\ last.op = "set_referrer" /\ last.ok
    /\ committed.user_referrals[last.user_id] = last.referrer_id
    /\ committed.user_referrals[last.referrer_id] = last.user_id
    /\ OwnAncestor(committed, last.user_id)

\* C37: a rejecting audit of a pending withdrawal undoes the apply: the sum
\* of the balance the withdrawal was debited from and of company_balance is
\* again what it was before apply_withdrawal, that is, the gross amount is back
\* on the user's balance and the tax is out of company_balance.
C37_RejectedWithdrawalRoundTrip ==
    [][(last'.op = "audit_withdrawal" /\ ~last'.approve
        /\ last'.id <= Len(db.withdrawals)
        /\ db.withdrawals[last'.id].status \in {"pending_auto", "pending_manual"}) =>
        LET w == db.withdrawals[last'.id]
        IN  \E field \in {"promotion_balance", "merchant_balance"} :
               db'.users[w.user_id][field] + db'.accounts["company_balance"] =
                  db.users[w.user_id][field] + db.accounts["company_balance"]
                  + w.amount - w.tax_amount]_vars

\* the coupons minted for reward i of store d, when it is the only reward of
\* its user
CouponsOfReward(d, i) == CouponsFor(d.coupons, d.pending_rewards[i].user_id, "user")

\* C38: whatever way concurrent audits interleave, a pending reward yields at
\* most one coupon, and yields one only if it ends approved.
C38_OneCouponPerReward ==
    \A i \in 1..Len(committed.pending_rewards) :
        /\ Cardinality(CouponsOfReward(committed, i)) <= 1
        /\ Cardinality(CouponsOfReward(committed, i)) = 1
              => committed.pending_rewards[i].status = "approved"

\* C39: every pending reward a successful settle_order inserts is for the new
\* order, is half of MEMBER_PRODUCT_PRICE and is pending; a referral reward has
\* no layer; a team reward has the buyer's new level as layer, which lies in
\* 2..6; and the order gets at most one referral reward and at most one team
\* reward.
C39_NewRewardsWellFormed ==
    [][SettleStep =>
        LET new == NewRows(db.pending_rewards, db'.pending_rewards)
        IN  /\ \A i \in 1..Len(new) :
                  /\ new[i].order_id = NewOrder(db').id
                  /\ new[i].amount * 2 = MEMBER_PRODUCT_PRICE
                  /\ new[i].status = "pending"
                  /\ new[i].reward_type \in {"referral", "team"}
                  /\ new[i].reward_type = "referral" => new[i].layer = NULL
                  /\ new[i].reward_type = "team" =>
                        /\ new[i].layer \in 2..MAX_TEAM_LAYER
                        /\ new[i].layer = db'.users[last'.user_id].member_level
            /\ Len(SelectSeq(new, IsReferral)) <= 1
            /\ Len(SelectSeq(new, IsTeam)) <= 1]_vars

\* one order has queued a referral reward and a team reward of layer 2
C39_Witness ==
    /\ last.op = "settle_order" /\ last.ok /\ last.quantity = 2
    /\ \E i, j \in 1..Len(db.pending_rewards) :
          /\ db.pending_rewards[i].order_id = NewOrder(db).id
          /\ db.pending_rewards[j].order_id = NewOrder(db).id
          /\ db.pending_rewards[i].reward_type = "referral"
          /\ db.pending_rewards[j].reward_type = "team"
          /\ db.pending_rewards[j].layer = 2

\* C40: a run of distribute_weekly_subsidy that finds a positive subsidy_pool
\* balance and a positive combined point total reaches its commit, whoever
\* holds the points (users, merchants or only merchants); and a run that fails
\* or returns false leaves no coupon, no points deduction and no subsidy
\* record behind, in the session or in the store.
C40_SubsidyCompletesOrLeavesNothing ==
    [][(last'.op = "distribute_weekly_subsidy") =>
        /\ (db.accounts["subsidy_pool"] > 0 /\ TotalPoints(db) > 0) =>
              /\ last'.ok
              /\ committed' = db'
        /\ ~last'.ok =>
              /\ db'.coupons = db.coupons
              /\ db'.users = db.users
              /\ db'.weekly_subsidy_records = db.weekly_subsidy_records
              /\ committed' = committed]_vars

====
